---- MODULE Spec2Model ----
(***************************************************************************)
(* A model of sofer-core: the first-child/next-sibling tree (tree.rs), the  *)
(* node payload, evaluation and the exporters (node.rs) and the sofer text  *)
(* reader (reader.rs).                                                      *)
(*                                                                          *)
(* Values.  An Option is a sequence of length 0 (None) or 1 (Some).  A     *)
(* Uuid is a natural number, the nil Uuid is 0, and the order of Uuids is   *)
(* the order of the numbers (Uuid compares bytewise).  A String is a        *)
(* sequence of characters, each a one-character TLA+ string; the fixed      *)
(* texts that Rust's Debug formatting of a Lua value or error produces are  *)
(* single elements that stand for the whole text.                           *)
(***************************************************************************)
EXTENDS Integers, Sequences, FiniteSets, TLC

VARIABLES tree, out

vars == <<tree, out>>

\* ------------------------------------------------------------------ bounds
\* Uuid::new_v4 draws from 1..MaxId.
MaxId == 4
\* A tree built by insert grows to at most MaxNodes nodes under its root.
MaxNodes == 3
\* In the specification of evaluation new_v4 draws from 1..MaxEvalId.
MaxEvalId == 2
\* A sofer text of the structural inputs has at most MaxRecords lines.
MaxRecords == 4
\* the uuids 1..MaxExportId of the nodes of the trees that are exported
MaxExportId == 3
\* the number of records, and the uuids 1..MaxParse, of the parsed texts
MaxParse == 3
\* the nodes of a tree whose nodes are evaluated one by one
MaxArg == 3

\* ------------------------------------------------------------------ values
None == <<>>
Some(x) == <<x>>
IsSome(o) == Len(o) = 1

Nil == 0


\* node.rs, Node::new
NewNode(raw, attributes) ==
    [raw |-> raw, attributes |-> attributes, evaled |-> None]

\* tree.rs, Tree::new_tree
new_tree(value) ==
    [value |-> value, uuid |-> Nil, first_child |-> None, next_sibling |-> None]

\* tree.rs, Tree::new_child; the fresh Uuid is the caller's choice of u
new_child(value, u) ==
    [value |-> value, uuid |-> u, first_child |-> None, next_sibling |-> None]

\* ------------------------------------------------------------------ tree.rs
\* insert_to_sibling without its walk to the end of the chain
insert_to_sibling_overwrite(self, new_node) ==
    [self EXCEPT !.next_sibling = Some(new_node)]

RECURSIVE insert_to_sibling(_, _)
insert_to_sibling(self, new_node) ==
    IF IsSome(self.next_sibling)
    THEN [self EXCEPT !.next_sibling =
              Some(insert_to_sibling(self.next_sibling[1], new_node))]
    ELSE [self EXCEPT !.next_sibling = Some(new_node)]

RECURSIVE insert(_, _, _)
\* insert that hangs the new node on the last node it visits without a match
insert_at_dead_end(self, parent_uuid, new_node) ==
    IF self.uuid = parent_uuid
    THEN IF IsSome(self.first_child)
         THEN [self |-> [self EXCEPT !.first_child =
                            Some(insert_to_sibling(self.first_child[1], new_node))],
               ret |-> TRUE]
         ELSE [self |-> [self EXCEPT !.first_child = Some(new_node)],
               ret |-> TRUE]
    ELSE LET under ==
                 IF IsSome(self.first_child)
                 THEN insert(self.first_child[1], parent_uuid, new_node)
                 ELSE [self |-> None, ret |-> FALSE]
         IN  IF under.ret
             THEN [self |-> [self EXCEPT !.first_child = Some(under.self)],
                   ret |-> TRUE]
             ELSE IF IsSome(self.next_sibling)
                  THEN LET sib == insert(self.next_sibling[1], parent_uuid, new_node)
                       IN  [self |-> [self EXCEPT !.next_sibling = Some(sib.self)],
                            ret |-> sib.ret]
                  ELSE [self |-> [self EXCEPT !.next_sibling = Some(new_node)],
                        ret |-> FALSE]

\* insert that appends the new node and a clone of it
insert_with_clone(self, parent_uuid, new_node) ==
    IF self.uuid = parent_uuid
    THEN IF IsSome(self.first_child)
         THEN [self |-> [self EXCEPT !.first_child =
                            Some(insert_to_sibling(
                                     insert_to_sibling(self.first_child[1], new_node),
                                     new_node))],
               ret |-> TRUE]
         ELSE [self |-> [self EXCEPT !.first_child =
                            Some(insert_to_sibling(new_node, new_node))],
               ret |-> TRUE]
    ELSE LET under ==
                 IF IsSome(self.first_child)
                 THEN insert(self.first_child[1], parent_uuid, new_node)
                 ELSE [self |-> None, ret |-> FALSE]
         IN  IF under.ret
             THEN [self |-> [self EXCEPT !.first_child = Some(under.self)],
                   ret |-> TRUE]
             ELSE IF IsSome(self.next_sibling)
                  THEN LET sib == insert(self.next_sibling[1], parent_uuid, new_node)
                       IN  [self |-> [self EXCEPT !.next_sibling = Some(sib.self)],
                            ret |-> sib.ret]
                  ELSE [self |-> self, ret |-> FALSE]

\* insert that makes the new node the only child of its parent
insert_as_only_child(self, parent_uuid, new_node) ==
    IF self.uuid = parent_uuid
    THEN [self |-> [self EXCEPT !.first_child = Some(new_node)], ret |-> TRUE]
    ELSE LET under ==
                 IF IsSome(self.first_child)
                 THEN insert(self.first_child[1], parent_uuid, new_node)
                 ELSE [self |-> None, ret |-> FALSE]
         IN  IF under.ret
             THEN [self |-> [self EXCEPT !.first_child = Some(under.self)],
                   ret |-> TRUE]
             ELSE IF IsSome(self.next_sibling)
                  THEN LET sib == insert(self.next_sibling[1], parent_uuid, new_node)
                       IN  [self |-> [self EXCEPT !.next_sibling = Some(sib.self)],
                            ret |-> sib.ret]
                  ELSE [self |-> self, ret |-> FALSE]

\* insert returns the pair of &mut self after the call and the bool result
insert(self, parent_uuid, new_node) ==
    IF self.uuid = parent_uuid
    THEN IF IsSome(self.first_child)
         THEN [self |-> [self EXCEPT !.first_child =
                            Some(insert_to_sibling(self.first_child[1], new_node))],
               ret |-> TRUE]
         ELSE [self |-> [self EXCEPT !.first_child = Some(new_node)],
               ret |-> TRUE]
    ELSE LET under ==
                 IF IsSome(self.first_child)
                 THEN insert(self.first_child[1], parent_uuid, new_node)
                 ELSE [self |-> None, ret |-> FALSE]
         IN  IF under.ret
             THEN [self |-> [self EXCEPT !.first_child = Some(under.self)],
                   ret |-> TRUE]
             ELSE IF IsSome(self.next_sibling)
                  THEN LET sib == insert(self.next_sibling[1], parent_uuid, new_node)
                       IN  [self |-> [self EXCEPT !.next_sibling = Some(sib.self)],
                            ret |-> sib.ret]
                  ELSE [self |-> self, ret |-> FALSE]

\* Option::or
OptOr(a, b) == IF IsSome(a) THEN a ELSE b

RECURSIVE find(_, _)
\* find that forgets the siblings of a node that has children
find_children_only(self, uuid) ==
    IF self.uuid = uuid
    THEN Some(self)
    ELSE IF IsSome(self.first_child)
         THEN find(self.first_child[1], uuid)
         ELSE IF IsSome(self.next_sibling)
              THEN find(self.next_sibling[1], uuid)
              ELSE None

find(self, uuid) ==
    IF self.uuid = uuid
    THEN Some(self)
    ELSE IF IsSome(self.first_child) /\ IsSome(self.next_sibling)
         THEN OptOr(find(self.first_child[1], uuid), find(self.next_sibling[1], uuid))
         ELSE IF IsSome(self.first_child)
              THEN find(self.first_child[1], uuid)
              ELSE IF IsSome(self.next_sibling)
                   THEN find(self.next_sibling[1], uuid)
                   ELSE None

\* the map of traverse_children: every depth plus one
Deeper(v) == [i \in 1..Len(v) |-> <<v[i][1] + 1, v[i][2]>>]

RECURSIVE traverse(_)
\* traverse_children without the map that deepens the entries
traverse_children_same_depth(self) ==
    IF IsSome(self.first_child) THEN traverse(self.first_child[1]) ELSE <<>>

traverse_children(self) ==
    IF IsSome(self.first_child) THEN Deeper(traverse(self.first_child[1])) ELSE <<>>

traverse_siblings(self) ==
    IF IsSome(self.next_sibling) THEN traverse(self.next_sibling[1]) ELSE <<>>

traverse(self) ==
    <<<<0, self>>>> \o traverse_children(self) \o traverse_siblings(self)

RECURSIVE get_siblings(_)
get_siblings(self) ==
    IF IsSome(self.next_sibling)
    THEN <<self.next_sibling[1]>> \o get_siblings(self.next_sibling[1])
    ELSE <<>>

get_children(self) ==
    IF IsSome(self.first_child)
    THEN <<self.first_child[1]>> \o get_siblings(self.first_child[1])
    ELSE <<>>

\* ------------------------------------------------------------------ text
\* the decimal digits, '0' first
Digits == <<"0", "1", "2", "3", "4", "5", "6", "7", "8", "9">>

IsDigit(c) == \E i \in 1..10 : Digits[i] = c

DigitVal(c) == (CHOOSE i \in 1..10 : Digits[i] = c) - 1

\* Display of a non-negative whole number ({} of an f32 without fraction)
RECURSIVE FormatNum(_)
FormatNum(n) ==
    IF n < 10 THEN <<Digits[n + 1]>> ELSE FormatNum(n \div 10) \o <<Digits[(n % 10) + 1]>>

\* Uuid's Display (hyphenated) and simple forms, the leading zero groups
\* shortened to one "0": "0-d" stands for 00000000-0000-0000-0000-00000000000d
Hyphenated(u) == <<"0", "-">> \o FormatNum(u)

Simple(u) == <<"0">> \o FormatNum(u)

\* stable sort (Vec::sort_by_key, Vec::sort_by) of a Vec of <<key, item>>
\* pairs by the key: each element goes after the last one whose key is not
\* greater
RECURSIVE StableSort(_)
StableSort(v) ==
    IF v = <<>> THEN <<>>
    ELSE LET front == StableSort(SubSeq(v, 1, Len(v) - 1))
             x == v[Len(v)]
             n == Cardinality({i \in 1..Len(front) : front[i][1] <= x[1]})
         IN  SubSeq(front, 1, n) \o <<x>> \o SubSeq(front, n + 1, Len(front))

\* Iterator::take_while(|c| c != '@')
RECURSIVE TakeUntilAt(_)
TakeUntilAt(s) ==
    IF s = <<>> \/ Head(s) = "@" THEN <<>> ELSE <<Head(s)>> \o TakeUntilAt(Tail(s))

\* Iterator::skip_while(|c| c != '@')
RECURSIVE SkipUntilAt(_)
SkipUntilAt(s) ==
    IF s = <<>> \/ Head(s) = "@" THEN s ELSE SkipUntilAt(Tail(s))

\* Iterator::skip(1)
Skip1(s) == IF s = <<>> THEN <<>> ELSE Tail(s)

\* concatenation of a sequence of sequences
RECURSIVE Flatten(_)
Flatten(ss) == IF ss = <<>> THEN <<>> ELSE Head(ss) \o Flatten(Tail(ss))

\* ------------------------------------------------------------------ Lua
\* Lua values: nil, boolean, number, string, function and table; a table is
\* the sequence of its <<key, value>> pairs in the order pairs() yields them.
LuaNil == [t |-> "nil"]
LuaBoolean(b) == [v |-> b, t |-> "boolean"]
LuaNumber(n) == [v |-> n, t |-> "number"]
LuaString(s) == [v |-> s, t |-> "string"]
LuaFunction(f) == [v |-> f, t |-> "function"]
LuaTable(h) == [v |-> h, t |-> "table"]

\* a Lua list: the table with the keys 1..n
LuaList(vs) == LuaTable([i \in 1..Len(vs) |-> <<LuaNumber(i), vs[i]>>])

\* Table::get
LuaGet(table, key) ==
    LET hit == {i \in 1..Len(table.v) :
                   table.v[i][1].t = key.t /\ table.v[i][1].v = key.v}
    IN  IF hit = {} THEN LuaNil
        ELSE table.v[CHOOSE i \in hit : \A j \in hit : i <= j][2]

\* the keys of the tables that cross into Lua
KeyValue == LuaString(<<"v", "a", "l", "u", "e">>)
KeyUuid == LuaString(<<"u", "u", "i", "d">>)
KeyChildren == LuaString(<<"c", "h", "i", "l", "d", "r", "e", "n">>)
KeyRaw == LuaString(<<"r", "a", "w">>)

\* ToLua for Node that lets evaled cross as well
Node_to_lua_with_evaled(self) ==
    LuaTable(<<<<KeyRaw, LuaString(self.raw)>>,
               <<LuaString(<<"e">>), LuaString(IF self.evaled = <<>> THEN <<>>
                                               ELSE self.evaled[1])>>>>)

\* node.rs, ToLua for Node: only raw crosses into Lua
Node_to_lua(self) == LuaTable(<<<<KeyRaw, LuaString(self.raw)>>>>)

\* tree.rs, ToLua for Tree
RECURSIVE Tree_to_lua(_)
Tree_to_lua(self) ==
    LET children == get_children(self)
    IN  LuaTable(<<
            <<KeyValue, Node_to_lua(self.value)>>,
            <<KeyUuid, LuaString(Simple(self.uuid))>>,
            <<KeyChildren, LuaList([i \in 1..Len(children) |-> Tree_to_lua(children[i])])>>
        >>)

\* The scripting capability, as far as eval uses it.  A formula source is
\*   "r"  function(node) return node.value.raw end
\*   "n"  function(node) return #node.children end
\*   "e"  function(node) error() end
\*   "t"  true
\* (each with optional spaces around it) and anything else does not compile.
RECURSIVE Trim(_)
Trim(s) ==
    IF s = <<>> THEN s
    ELSE IF Head(s) = " " THEN Trim(Tail(s))
    ELSE IF s[Len(s)] = " " THEN Trim(SubSeq(s, 1, Len(s) - 1))
    ELSE s

\* Lua::eval: Ok(value) or Err(error)
LuaEval(lua_code) ==
    LET src == Trim(lua_code)
    IN  IF src \in {<<"r">>, <<"n">>, <<"e">>}
        THEN [v |-> LuaFunction(src[1]), ok |-> TRUE]
        ELSE IF src = <<"t">>
        THEN [v |-> LuaBoolean(TRUE), ok |-> TRUE]
        ELSE [v |-> "SyntaxError", ok |-> FALSE]

\* Function::call::<TreeNode, String>: the function applied to the table of
\* the node, its result converted to a String (a number is coerced)
LuaCall(f, arg) ==
    IF f.v = "r"
    THEN [v |-> LuaGet(LuaGet(arg, KeyValue), KeyRaw).v, ok |-> TRUE]
    ELSE IF f.v = "n"
    THEN [v |-> FormatNum(Len(LuaGet(arg, KeyChildren).v)), ok |-> TRUE]
    ELSE [v |-> "RuntimeError", ok |-> FALSE]

\* format!("{:?}", x) of a Lua value that is no function, and of an error
DebugValue(x) ==
    IF x.t = "boolean" THEN <<IF x.v THEN "Boolean(true)" ELSE "Boolean(false)">>
    ELSE IF x.t = "nil" THEN <<"Nil">>
    ELSE <<"Value">>

DebugError(err) == <<err>>

ErrorFunction == <<"error function">>

\* ------------------------------------------------------------------ node.rs
\* the formula source without the skip(1) that drops the '@'
lua_code_with_at(self) == SkipUntilAt(self.value.raw)

\* the formula source of a node: what follows the first '@' of raw
lua_code_of(self) == Skip1(SkipUntilAt(self.value.raw))

eval(self) ==
    LET text == TakeUntilAt(self.value.raw)
        lua_code == lua_code_of(self)
        result ==
            IF lua_code # <<>>
            THEN LET r == LuaEval(lua_code)
                 IN  IF r.ok /\ r.v.t = "function"
                     THEN LET c == LuaCall(r.v, Tree_to_lua(self))
                          IN  IF c.ok THEN c.v ELSE ErrorFunction
                     ELSE IF r.ok THEN DebugValue(r.v) ELSE DebugError(r.v)
            ELSE <<>>
    IN  text \o result

\* the sources handed to Lua::eval by one call of eval, in order
eval_runs(self) ==
    IF lua_code_of(self) # <<>> THEN <<lua_code_of(self)>> ELSE <<>>

RECURSIVE eval_all(_)
\* eval_all that stops the pass at a node whose formula call fails
eval_all_stops_at_failure(self) ==
    LET s1 == [self EXCEPT !.value.evaled = Some(eval(self))]
        s2 == IF IsSome(s1.first_child)
              THEN [s1 EXCEPT !.first_child = Some(eval_all(s1.first_child[1]))]
              ELSE s1
    IN  IF eval(self) = TakeUntilAt(self.value.raw) \o ErrorFunction
        THEN s1
        ELSE IF IsSome(s2.next_sibling)
        THEN [s2 EXCEPT !.next_sibling = Some(eval_all(s2.next_sibling[1]))]
        ELSE s2

\* eval_all that appends the new text to the evaled text of before
eval_all_appends(self) ==
    LET s1 == [self EXCEPT !.value.evaled =
                  Some((IF IsSome(self.value.evaled) THEN self.value.evaled[1] ELSE <<>>)
                       \o eval(self))]
        s2 == IF IsSome(s1.first_child)
              THEN [s1 EXCEPT !.first_child = Some(eval_all(s1.first_child[1]))]
              ELSE s1
    IN  IF IsSome(s2.next_sibling)
        THEN [s2 EXCEPT !.next_sibling = Some(eval_all(s2.next_sibling[1]))]
        ELSE s2

eval_all(self) ==
    LET s1 == [self EXCEPT !.value.evaled = Some(eval(self))]
        s2 == IF IsSome(s1.first_child)
              THEN [s1 EXCEPT !.first_child = Some(eval_all(s1.first_child[1]))]
              ELSE s1
    IN  IF IsSome(s2.next_sibling)
        THEN [s2 EXCEPT !.next_sibling = Some(eval_all(s2.next_sibling[1]))]
        ELSE s2

\* Attribute::String, Attribute::Number, Attribute::Boolean
AttrString(k, v) == [kind |-> "String", name |-> k, val |-> v]
AttrNumber(k, v) == [kind |-> "Number", name |-> k, val |-> v]
AttrBoolean(k, v) == [kind |-> "Boolean", name |-> k, val |-> v]

\* {:?} of a String: quoted, with '"' and '\' escaped by a backslash
RECURSIVE EscapeDebug(_)
EscapeDebug(v) ==
    IF v = <<>> THEN <<>>
    ELSE (IF Head(v) \in {"\"", "\\"} THEN <<"\\", Head(v)>> ELSE <<Head(v)>>)
         \o EscapeDebug(Tail(v))

DebugStr(v) == <<"\"">> \o EscapeDebug(v) \o <<"\"">>

export_attribute(attr) ==
    IF attr.kind = "String" THEN attr.name \o <<"=">> \o DebugStr(attr.val) \o <<";">>
    ELSE IF attr.kind = "Number" THEN attr.name \o <<"=">> \o FormatNum(attr.val) \o <<";">>
    ELSE IF attr.val THEN attr.name \o <<"=", "T", ";">>
    ELSE attr.name \o <<"=", "F", ";">>

export_attributes(self) ==
    Flatten([i \in 1..Len(self.value.attributes) |->
                export_attribute(self.value.attributes[i])])

\* raw whatever evaled says
export_text_raw(n, evaled) == n.value.raw

\* the text export_to_sofer writes for a node
export_text(n, evaled) ==
    IF evaled
    THEN IF IsSome(n.value.evaled) THEN n.value.evaled[1] ELSE n.value.raw
    ELSE n.value.raw

RECURSIVE to_vec_children(_, _)
to_vec_children(n, evaled) ==
    LET children == get_children(n)
    IN  Flatten([i \in 1..Len(children) |->
            <<<<children[i].uuid, n.uuid, export_attributes(children[i]),
                export_text(children[i], evaled)>>>>
            \o to_vec_children(children[i], evaled)])

to_vec(n, evaled) ==
    LET siblings == get_siblings(n)
    IN  <<<<n.uuid, Nil, export_attributes(n), export_text(n, evaled)>>>>
        \o to_vec_children(n, evaled)
        \o Flatten([i \in 1..Len(siblings) |->
            <<<<siblings[i].uuid, Nil, export_attributes(siblings[i]),
                export_text(siblings[i], evaled)>>>>
            \o to_vec_children(siblings[i], evaled)])

\* format!("{} {} {} {}\n", x.0, x.1, x.2, x.3)
sofer_line(x) ==
    Hyphenated(x[1]) \o <<" ">> \o Hyphenated(x[2]) \o <<" ">> \o x[3] \o <<" ">>
    \o x[4] \o <<"\n">>

\* the records in the order of the walk, the first one skipped
export_records_unsorted(self, evaled) == Skip1(to_vec(self, evaled))

\* the records export_to_sofer writes: sorted by uuid, the first one skipped
export_records(self, evaled) == Skip1(StableSort(to_vec(self, evaled)))

export_to_sofer(self, evaled) ==
    LET vec == export_records(self, evaled)
    IN  Flatten([i \in 1..Len(vec) |-> sofer_line(vec[i])])

\* ------------------------------------------------------------------ reader.rs
\* a panic of the reader, with its message: the text of the message and
\* the text formatted into it
Panic(msg) == [msg |-> msg, panic |-> TRUE]
Done(v) == [v |-> v, panic |-> FALSE]

\* panic!() without a message
ExplicitPanic == <<"explicit panic", <<>>>>

AllDigits(s) == s # <<>> /\ \A i \in 1..Len(s) : IsDigit(s[i])

RECURSIVE ParseNum(_)
ParseNum(s) ==
    IF s = <<>> THEN 0 ELSE 10 * ParseNum(SubSeq(s, 1, Len(s) - 1)) + DigitVal(s[Len(s)])

\* Uuid::parse_str, on the shortened forms "0-d" (hyphenated) and "0d" (simple)
Uuid_parse_str(s) ==
    IF Len(s) >= 3 /\ s[1] = "0" /\ s[2] = "-" /\ AllDigits(SubSeq(s, 3, Len(s)))
    THEN Some(ParseNum(SubSeq(s, 3, Len(s))))
    ELSE IF Len(s) >= 2 /\ s[1] = "0" /\ AllDigits(SubSeq(s, 2, Len(s)))
    THEN Some(ParseNum(SubSeq(s, 2, Len(s))))
    ELSE None

\* str::parse::<f32>, on the numbers of the model: a run of decimal digits
parse_f32(s) == IF AllDigits(s) THEN Some(ParseNum(s)) ELSE None

\* the value of one name=value; entry decoded (the arm of ';')
decode_value(field, value) ==
    IF value = <<>> THEN Panic(ExplicitPanic)
    ELSE IF value[1] = "\""
    THEN Done(AttrString(field, SelectSeq(Tail(value), LAMBDA c : c # "\"")))
    ELSE IF value[1] = "T"
    THEN IF Len(value) < 3 THEN Done(AttrBoolean(field, TRUE)) ELSE Panic(ExplicitPanic)
    ELSE IF value[1] = "F"
    THEN IF Len(value) < 3 THEN Done(AttrBoolean(field, FALSE)) ELSE Panic(ExplicitPanic)
    ELSE IF IsSome(parse_f32(value))
    THEN Done(AttrNumber(field, parse_f32(value)[1]))
    ELSE Panic(ExplicitPanic)

\* the loop of read_attributes over the characters left (iter), with the
\* locals attributes, reading, reading_string, field and value in st
RECURSIVE read_attributes_loop(_, _)
read_attributes_loop(iter, st) ==
    IF ~st.reading_string
    THEN IF iter = <<>> THEN Done(st.attributes)
         ELSE IF Head(iter) = "="
         THEN IF Len(iter) >= 2 /\ iter[2] = "\""
              THEN read_attributes_loop(Tail(Tail(iter)),
                       [st EXCEPT !.reading = 1, !.reading_string = TRUE,
                                  !.value = Append(st.value, "\"")])
              ELSE read_attributes_loop(Tail(iter), [st EXCEPT !.reading = 1])
         ELSE IF Head(iter) = ";"
         THEN LET d == decode_value(st.field, st.value)
              IN  IF d.panic THEN d
                  ELSE read_attributes_loop(Tail(iter),
                           [st EXCEPT !.attributes = Append(st.attributes, d.v),
                                      !.field = <<>>, !.value = <<>>, !.reading = 0])
         ELSE IF st.reading = 0
         THEN read_attributes_loop(Tail(iter), [st EXCEPT !.field = Append(st.field, Head(iter))])
         ELSE read_attributes_loop(Tail(iter), [st EXCEPT !.value = Append(st.value, Head(iter))])
    ELSE IF iter = <<>> THEN Panic(ExplicitPanic)
         ELSE IF Head(iter) = "\""
         THEN read_attributes_loop(Tail(iter),
                  [st EXCEPT !.reading_string = FALSE, !.value = Append(st.value, "\"")])
         ELSE read_attributes_loop(Tail(iter), [st EXCEPT !.value = Append(st.value, Head(iter))])

read_attributes(attributes_string) ==
    read_attributes_loop(attributes_string,
        [attributes |-> <<>>, reading |-> 0, reading_string |-> FALSE,
         field |-> <<>>, value |-> <<>>])

\* reader::Node
ReaderNode(content, attributes, uuid, parent_uuid) ==
    [attributes |-> attributes, uuid |-> uuid, parent_uuid |-> parent_uuid,
     content |-> content]

sort_nodes(nodes) ==
    LET keyed == StableSort([i \in 1..Len(nodes) |-> <<nodes[i].parent_uuid, nodes[i]>>])
    IN  [i \in 1..Len(keyed) |-> keyed[i][2]]

\* a field that is no uuid is read as the nil uuid
read_line_unchecked(st) ==
    LET uuid == Uuid_parse_str(st.uuid_string)
        parent_uuid == Uuid_parse_str(st.parent_uuid_string)
        attributes == read_attributes(st.attributes_string)
    IN  IF attributes.panic THEN attributes
        ELSE Done(ReaderNode(st.content, attributes.v,
                             IF IsSome(uuid) THEN uuid[1] ELSE Nil,
                             IF IsSome(parent_uuid) THEN parent_uuid[1] ELSE Nil))

\* the arm of '\n' in read_nodes: the record of the line just read
read_line(st) ==
    LET uuid == Uuid_parse_str(st.uuid_string)
        parent_uuid == Uuid_parse_str(st.parent_uuid_string)
        attributes == read_attributes(st.attributes_string)
    IN  IF ~IsSome(uuid) THEN Panic(<<"Wrong UUID: ", st.uuid_string>>)
        ELSE IF ~IsSome(parent_uuid) THEN Panic(<<"Wrong UUID: ", st.parent_uuid_string>>)
        ELSE IF attributes.panic THEN attributes
        ELSE Done(ReaderNode(st.content, attributes.v, uuid[1], parent_uuid[1]))

\* every space moves to the next field, and none is kept
space_arm_separates(st) ==
    IF st.reading < 3 THEN [st EXCEPT !.reading = st.reading + 1] ELSE st

\* the arm of ' ' in read_nodes: one of the first three spaces moves to the
\* next field, a later one is a character of the content
space_arm(st) ==
    IF st.reading < 3
    THEN [st EXCEPT !.reading = st.reading + 1]
    ELSE [st EXCEPT !.content = Append(st.content, " ")]

\* the loop of read_nodes over the characters left, with the locals nodes,
\* uuid_string, parent_uuid_string, attributes_string, content, reading in st
RECURSIVE read_nodes_loop(_, _)
read_nodes_loop(chars, st) ==
    IF chars = <<>> THEN Done(sort_nodes(st.nodes))
    ELSE IF Head(chars) = " "
    THEN read_nodes_loop(Tail(chars), space_arm(st))
    ELSE IF Head(chars) = "\n"
    THEN LET r == read_line(st)
         IN  IF r.panic THEN r
             ELSE read_nodes_loop(Tail(chars),
                      [nodes |-> Append(st.nodes, r.v), uuid_string |-> <<>>,
                       parent_uuid_string |-> <<>>, attributes_string |-> <<>>,
                       content |-> <<>>, reading |-> 0])
    ELSE IF st.reading = 0
    THEN read_nodes_loop(Tail(chars), [st EXCEPT !.uuid_string = Append(st.uuid_string, Head(chars))])
    ELSE IF st.reading = 1
    THEN read_nodes_loop(Tail(chars),
             [st EXCEPT !.parent_uuid_string = Append(st.parent_uuid_string, Head(chars))])
    ELSE IF st.reading = 2
    THEN read_nodes_loop(Tail(chars),
             [st EXCEPT !.attributes_string = Append(st.attributes_string, Head(chars))])
    ELSE read_nodes_loop(Tail(chars), [st EXCEPT !.content = Append(st.content, Head(chars))])

\* read_nodes that reads a last line without newline as a line
read_nodes_closing_last_line(str) ==
    read_nodes_loop(IF str # <<>> /\ str[Len(str)] # "\n" THEN Append(str, "\n") ELSE str,
        [nodes |-> <<>>, uuid_string |-> <<>>, parent_uuid_string |-> <<>>,
         attributes_string |-> <<>>, content |-> <<>>, reading |-> 0])

read_nodes(str) ==
    read_nodes_loop(str,
        [nodes |-> <<>>, uuid_string |-> <<>>, parent_uuid_string |-> <<>>,
         attributes_string |-> <<>>, content |-> <<>>, reading |-> 0])

\* the TreeNode literal built from a reader::Node, without links
tree_node_of(n) ==
    [value |-> NewNode(n.content, n.attributes), uuid |-> n.uuid,
     first_child |-> None, next_sibling |-> None]

\* one pass over nodes, each inserted under its parent when the parent is
\* already in tree_node
RECURSIVE one_pass(_, _)
one_pass(rest, tree_node) ==
    IF rest = <<>> THEN tree_node
    ELSE one_pass(Tail(rest),
                  insert(tree_node, Head(rest).parent_uuid, tree_node_of(Head(rest))).self)

nodes_to_one_tree_node(nodes, tree_node) == one_pass(nodes, tree_node)

\* a uuid no node carries, other than nil, is given the index past the end
position_nil_only(nodes, uuid) ==
    LET hit == {i \in 1..Len(nodes) : nodes[i].uuid = uuid}
    IN  IF uuid = Nil THEN None
        ELSE IF hit = {} THEN Some(Len(nodes))
        ELSE Some((CHOOSE i \in hit : \A j \in hit : i <= j) - 1)

\* Iterator::position: the 0-based index of the first node with the uuid
position(nodes, uuid) ==
    LET hit == {i \in 1..Len(nodes) : nodes[i].uuid = uuid}
    IN  IF hit = {} THEN None ELSE Some((CHOOSE i \in hit : \A j \in hit : i <= j) - 1)

\* the first loop of nodes_to_tree_node over the records left: tree_nodes
RECURSIVE top_level(_, _, _)
top_level(nodes, rest, tree_nodes) ==
    IF rest = <<>> THEN tree_nodes
    ELSE LET n == Head(rest)
             idx == position(nodes, n.parent_uuid)
         IN  IF IsSome(idx)
             THEN IF idx[1] < Len(tree_nodes)
                  THEN top_level(nodes, Tail(rest),
                           [tree_nodes EXCEPT ![idx[1] + 1] =
                               insert(tree_nodes[idx[1] + 1], n.parent_uuid,
                                      nodes_to_one_tree_node(nodes, tree_node_of(n))).self])
                  ELSE top_level(nodes, Tail(rest), tree_nodes)
             ELSE top_level(nodes, Tail(rest), Append(tree_nodes, tree_node_of(n)))

\* the second loop of nodes_to_tree_node: every tree of tree_nodes inserted
\* under the nil root
RECURSIVE insert_all(_, _)
insert_all(treenode, tree_nodes) ==
    IF tree_nodes = <<>> THEN treenode
    ELSE insert_all(insert(treenode, Nil, Head(tree_nodes)).self, Tail(tree_nodes))

nodes_to_tree_node(nodes) ==
    insert_all(new_tree(NewNode(<<>>, <<>>)), top_level(nodes, nodes, <<>>))

\* node.rs, TreeNode::import_from_sofer: the tree, or the reader's panic
import_from_sofer(str) ==
    LET nodes == read_nodes(str)
    IN  IF nodes.panic THEN nodes ELSE Done(nodes_to_tree_node(nodes.v))

\* ------------------------------------------------------------------ from Lua
\* a conversion error (LuaError::FromLuaConversionError) or the value
Err(msg) == [v |-> msg, ok |-> FALSE, panic |-> FALSE]
Ok(v) == [v |-> v, ok |-> TRUE, panic |-> FALSE]
Abort(msg) == [v |-> msg, ok |-> FALSE, panic |-> TRUE]

KeyEvaled == LuaString(<<"e", "v", "a", "l", "e", "d">>)
KeyAttributes ==
    LuaString(<<"a", "t", "t", "r", "i", "b", "u", "t", "e", "s">>)

\* FromLua for String: a string, or a number coerced to its text
String_from_lua(x) ==
    IF x.t = "string" THEN Ok(x.v)
    ELSE IF x.t = "number" THEN Ok(FormatNum(x.v))
    ELSE Err("String")

\* the loop of attributes_from_lua over the pairs left
RECURSIVE attributes_loop(_, _)
attributes_loop(pairs, attrs) ==
    IF pairs = <<>> THEN Ok(attrs)
    ELSE LET k == String_from_lua(Head(pairs)[1])
             x == Head(pairs)[2]
         IN  IF k.ok /\ x.t = "string"
             THEN attributes_loop(Tail(pairs), Append(attrs, AttrString(k.v, x.v)))
             ELSE IF k.ok /\ x.t = "number"
             THEN attributes_loop(Tail(pairs), Append(attrs, AttrNumber(k.v, x.v)))
             ELSE IF k.ok /\ x.t = "boolean"
             THEN attributes_loop(Tail(pairs), Append(attrs, AttrBoolean(k.v, x.v)))
             ELSE attributes_loop(Tail(pairs), attrs)

attributes_from_lua(lua_value) ==
    IF lua_value.t = "table" THEN attributes_loop(lua_value.v, <<>>)
    ELSE Err("a list of attributes")

\* node.rs, FromLua for Node
Node_from_lua(lua_value) ==
    IF lua_value.t # "table" THEN Err("Tree")
    ELSE LET raw == String_from_lua(LuaGet(lua_value, KeyRaw))
             ev == LuaGet(lua_value, KeyEvaled)
             attributes == attributes_from_lua(LuaGet(lua_value, KeyAttributes))
         IN  IF ~raw.ok THEN raw
             ELSE IF ev.t \notin {"string", "nil"} THEN Err("String")
             ELSE IF ~attributes.ok THEN attributes
             ELSE Ok([raw |-> raw.v,
                      attributes |-> attributes.v,
                      evaled |-> IF ev.t = "string" THEN Some(ev.v) ELSE None])

\* the values of the keys 1, 2, ... of a table, up to the first missing one
RECURSIVE sequence_values(_, _)
sequence_values(table, i) ==
    IF LuaGet(table, LuaNumber(i)).t = "nil" THEN <<>>
    ELSE <<LuaGet(table, LuaNumber(i))>> \o sequence_values(table, i + 1)

\* the first result of a sequence of results that is no Ok, or None
FirstFailure(rs) ==
    LET bad == {i \in 1..Len(rs) : ~rs[i].ok}
    IN  IF bad = {} THEN None ELSE Some(rs[CHOOSE i \in bad : \A j \in bad : i <= j])

\* the for loop taking the children last to first
RECURSIVE insert_children_backwards(_, _, _)
insert_children_backwards(t, uuid, children) ==
    IF children = <<>> THEN t
    ELSE insert_children_backwards(insert(t, uuid, children[Len(children)]).self, uuid,
                                   SubSeq(children, 1, Len(children) - 1))

\* the for loop of Tree::from_lua: every child inserted under uuid
RECURSIVE insert_children(_, _, _)
insert_children(t, uuid, children) ==
    IF children = <<>> THEN t
    ELSE insert_children(insert(t, uuid, Head(children)).self, uuid, Tail(children))

\* tree.rs, FromLua for Tree<Node>
RECURSIVE Tree_from_lua(_)
Tree_from_lua(lua_value) ==
    IF lua_value.t # "table" THEN Err("Tree")
    ELSE LET value == Node_from_lua(LuaGet(lua_value, KeyValue))
             uuid_string == String_from_lua(LuaGet(lua_value, KeyUuid))
             uuid == Uuid_parse_str(uuid_string.v)
             list == LuaGet(lua_value, KeyChildren)
             items == sequence_values(list, 1)
             children == [i \in 1..Len(items) |-> Tree_from_lua(items[i])]
         IN  IF ~value.ok THEN value
             ELSE IF ~uuid_string.ok THEN uuid_string
             ELSE IF ~IsSome(uuid) THEN Abort("unwrap")
             ELSE IF list.t # "table" THEN Err("Vec")
             ELSE IF IsSome(FirstFailure(children)) THEN FirstFailure(children)[1]
             ELSE Ok(insert_children(
                         [value |-> value.v, uuid |-> uuid[1],
                          first_child |-> None, next_sibling |-> None],
                         uuid[1],
                         [i \in 1..Len(children) |-> children[i].v]))

\* node.rs, TreeNode::import_from_lua on the value of the Lua source: the
\* unwrap turns a conversion error into a panic
import_from_lua(lua_value) ==
    LET r == Tree_from_lua(lua_value)
    IN  IF r.ok THEN Done(r.v) ELSE Panic(r.v)

\* ------------------------------------------------------------------ to Lua
\* ["k"]=true; for a boolean of either value
export_lua_attribute(attr) ==
    <<"[", "\"">> \o attr.name \o <<"\"", "]", "=">>
    \o (IF attr.kind = "String" THEN DebugStr(attr.val)
        ELSE IF attr.kind = "Number" THEN FormatNum(attr.val)
        ELSE <<"t", "r", "u", "e">>)
    \o <<";">>

\* the texts between which the children are written: a ',' after every
\* child, the last one popped
JoinComma(ss) ==
    Flatten([i \in 1..Len(ss) |-> IF i < Len(ss) THEN ss[i] \o <<",">> ELSE ss[i]])

\* node.rs, TreeNode::export_to_lua
RECURSIVE export_to_lua(_)
export_to_lua(self) ==
    LET children == get_children(self)
    IN  <<"{", "v", "a", "l", "u", "e", "=", "{", "r", "a", "w", "=">> \o DebugStr(self.value.raw)
        \o <<",", "e", "v", "a", "l", "e", "d", "=">>
        \o (IF IsSome(self.value.evaled) THEN DebugStr(self.value.evaled[1])
            ELSE <<"n", "i", "l">>)
        \o <<",", "a", "t", "t", "r", "i", "b", "u", "t", "e", "s", "=", "{">>
        \o Flatten([i \in 1..Len(self.value.attributes) |->
                       export_lua_attribute(self.value.attributes[i])])
        \o <<"}", "}", ",", "u", "u", "i", "d", "=", "\"">> \o Hyphenated(self.uuid)
        \o <<"\"", ",", "c", "h", "i", "l", "d", "r", "e", "n", "=", "{">>
        \o JoinComma([i \in 1..Len(children) |-> export_to_lua(children[i])])
        \o <<"}", "}">>

\* The scripting capability, as far as import_from_lua uses it: the value of
\* a source text that is a literal (a table constructor, a string, a number,
\* true, false or nil), or a syntax error.
Letters ==
    { "a", "b", "c", "d", "e", "f", "g", "h", "i", "j", "k", "l", "m", "n", "o", "p",
      "q", "r", "s", "t", "u", "v", "w", "x", "y", "z" }

Parsed(v, rest) == [v |-> v, ok |-> TRUE, rest |-> rest]
SyntaxError == [v |-> LuaNil, ok |-> FALSE, rest |-> <<>>]

\* the longest head of s made of characters of the set cs
RECURSIVE TakeWhileIn(_, _)
TakeWhileIn(s, cs) ==
    IF s = <<>> \/ Head(s) \notin cs THEN <<>> ELSE <<Head(s)>> \o TakeWhileIn(Tail(s), cs)

\* a string literal after its opening quote: a backslash keeps the character
\* that follows it, a quote ends the literal
RECURSIVE LuaStringLiteral(_, _)
LuaStringLiteral(s, acc) ==
    IF s = <<>> THEN SyntaxError
    ELSE IF Head(s) = "\"" THEN Parsed(LuaString(acc), Tail(s))
    ELSE IF Head(s) = "\\"
    THEN IF Len(s) < 2 THEN SyntaxError
         ELSE LuaStringLiteral(Tail(Tail(s)), Append(acc, s[2]))
    ELSE LuaStringLiteral(Tail(s), Append(acc, Head(s)))

\* table[key] = value in a table under construction: nil stores nothing, a
\* key already there keeps its place and takes the value
LuaSet(pairs, key, value) ==
    LET hit == {i \in 1..Len(pairs) : pairs[i][1].t = key.t /\ pairs[i][1].v = key.v}
    IN  IF value.t = "nil" THEN pairs
        ELSE IF hit = {} THEN Append(pairs, <<key, value>>)
        ELSE [i \in 1..Len(pairs) |-> IF i \in hit THEN <<key, value>> ELSE pairs[i]]

RECURSIVE LuaExpression(_)
RECURSIVE LuaFields(_, _, _)

\* the fields of a table constructor after its '{': [string]=exp, name=exp
\* or exp, with ',' or ';' between them
LuaFields(s, pairs, index) ==
    IF s = <<>> THEN SyntaxError
    ELSE IF Head(s) = "}" THEN Parsed(LuaTable(pairs), Tail(s))
    ELSE IF Head(s) \in {",", ";"} THEN LuaFields(Tail(s), pairs, index)
    ELSE IF Head(s) = "["
    THEN LET key == LuaExpression(Tail(s))
             value == LuaExpression(Tail(Tail(key.rest)))
         IN  IF ~key.ok \/ Len(key.rest) < 2 \/ SubSeq(key.rest, 1, 2) # <<"]", "=">>
             THEN SyntaxError
             ELSE IF ~value.ok THEN SyntaxError
             ELSE LuaFields(value.rest, LuaSet(pairs, key.v, value.v), index)
    ELSE LET name == TakeWhileIn(s, Letters)
             after == SubSeq(s, Len(name) + 1, Len(s))
         IN  IF name # <<>> /\ after # <<>> /\ Head(after) = "="
             THEN LET value == LuaExpression(Tail(after))
                  IN  IF ~value.ok THEN SyntaxError
                      ELSE LuaFields(value.rest, LuaSet(pairs, LuaString(name), value.v), index)
             ELSE LET value == LuaExpression(s)
                  IN  IF ~value.ok THEN SyntaxError
                      ELSE LuaFields(value.rest, LuaSet(pairs, LuaNumber(index), value.v),
                                     index + 1)

LuaExpression(s) ==
    LET word == TakeWhileIn(s, Letters)
        number == TakeWhileIn(s, {Digits[i] : i \in 1..10})
    IN  IF s = <<>> THEN SyntaxError
        ELSE IF Head(s) = "{" THEN LuaFields(Tail(s), <<>>, 1)
        ELSE IF Head(s) = "\"" THEN LuaStringLiteral(Tail(s), <<>>)
        ELSE IF number # <<>>
        THEN Parsed(LuaNumber(ParseNum(number)), SubSeq(s, Len(number) + 1, Len(s)))
        ELSE IF word = <<"t", "r", "u", "e">>
        THEN Parsed(LuaBoolean(TRUE), SubSeq(s, 5, Len(s)))
        ELSE IF word = <<"f", "a", "l", "s", "e">>
        THEN Parsed(LuaBoolean(FALSE), SubSeq(s, 6, Len(s)))
        ELSE IF word = <<"n", "i", "l">>
        THEN Parsed(LuaNil, SubSeq(s, 4, Len(s)))
        ELSE SyntaxError

\* node.rs, TreeNode::import_from_lua: lua.eval(lua_code).unwrap()
import_from_lua_code(lua_code) ==
    LET value == LuaExpression(lua_code)
    IN  IF ~value.ok \/ value.rest # <<>> THEN Panic("SyntaxError")
        ELSE import_from_lua(value.v)

\* ------------------------------------------------------------------ state
\* tree is the TreeNode the client holds; out is the last call made on it:
\* its name, its arguments, what it returned (or its panic) and the tree
\* before the call.
NoCall == [ret |-> None, panic |-> FALSE, op |-> "none", args |-> <<>>, before |-> None]

Call(op, args, ret, before) ==
    [ret |-> ret, panic |-> FALSE, op |-> op, args |-> args, before |-> Some(before)]

Panicked(op, args, msg, before) ==
    [ret |-> msg, panic |-> TRUE, op |-> op, args |-> args, before |-> Some(before)]

Init ==
    /\ tree = new_tree(NewNode(<<>>, <<>>))
    /\ out = NoCall

\* the uuids of the nodes of the subtree and sibling chain of t
RECURSIVE UuidsOf(_)
UuidsOf(t) ==
    {t.uuid}
    \cup (IF IsSome(t.first_child) THEN UuidsOf(t.first_child[1]) ELSE {})
    \cup (IF IsSome(t.next_sibling) THEN UuidsOf(t.next_sibling[1]) ELSE {})

\* the payloads of the tree engine's trees
PlainTexts == { <<"a">>, <<"b">> }

\* the raw texts a client inserts: plain text, an '@' with nothing after it,
\* each formula of the scripting capability, a formula with a second '@'
RawTexts ==
    { <<"a">>, <<"a", "@">>, <<"a", "@", "r">>, <<"@", " ", "n">>,
      <<"a", "@", "e">>, <<"@", "t">>, <<"a", "@", "r", "@", "n">> }

\* tree.insert(p, Tree::new_child(Node::new(raw, vec![]))), as main's
\* "tree insert" does; new_v4 yields a uuid no node carries
Insert(p, raw, u) ==
    /\ ~out.panic
    /\ u \notin UuidsOf(tree)
    /\ Cardinality(UuidsOf(tree)) <= MaxNodes \/ p \notin UuidsOf(tree)
    /\ LET new_node == new_child(NewNode(raw, <<>>), u)
           r == insert(tree, p, new_node)
       IN  /\ tree' = r.self
           /\ out' = Call("insert", <<p, new_node>>, r.ret, tree)

Find(uuid) ==
    /\ ~out.panic
    /\ out' = Call("find", <<uuid>>, find(tree, uuid), tree)
    /\ UNCHANGED tree

Traverse ==
    /\ ~out.panic
    /\ out' = Call("traverse", <<>>, traverse(tree), tree)
    /\ UNCHANGED tree

\* main's "tree-node eval": find(uuid).expect(..).eval()
Eval(uuid) ==
    /\ ~out.panic
    /\ LET n == find(tree, uuid)
       IN  out' = IF IsSome(n)
                  THEN Call("eval", <<n[1], eval_runs(n[1])>>, eval(n[1]), tree)
                  ELSE Panicked("eval", <<uuid>>, "Couldn't find node", tree)
    /\ UNCHANGED tree

EvalAll ==
    /\ ~out.panic
    /\ tree' = eval_all(tree)
    /\ out' = Call("eval_all", <<>>, None, tree)

ExportToSofer(evaled) ==
    /\ ~out.panic
    /\ out' = Call("export_to_sofer", <<evaled>>, export_to_sofer(tree, evaled), tree)
    /\ UNCHANGED tree

\* the tree engine: a tree built by insert, searched and traversed
Next ==
    \/ \E p \in 0..MaxId, raw \in PlainTexts, u \in 1..MaxId : Insert(p, raw, u)
    \/ \E uuid \in 0..MaxId : Find(uuid)
    \/ Traverse

Spec == Init /\ [][Next]_vars

\* insertion alone: from new_tree, any sequence of inserts of new children
NextInsert ==
    \E p \in 0..MaxId, raw \in PlainTexts, u \in 1..MaxId : Insert(p, raw, u)

SpecInsert == Init /\ [][NextInsert]_vars

\* evaluation: a tree of nodes with formulas, evaluated node by node and
\* as a whole
NextEval ==
    \/ \E p \in 0..MaxEvalId, raw \in RawTexts, u \in 1..MaxEvalId : Insert(p, raw, u)
    \/ \E uuid \in 0..MaxEvalId : Eval(uuid)
    \/ EvalAll

SpecEval == Init /\ [][NextEval]_vars

\* export: a tree built by insert, evaluated as a whole at any moment (the
\* nodes inserted later have no evaled text), and exported raw or evaled
ExportTexts == { <<"a", "@", "t">> }

NextExport ==
    \/ \E p \in 0..MaxExportId, raw \in ExportTexts, u \in 1..MaxExportId : Insert(p, raw, u)
    \/ EvalAll
    \/ \E evaled \in BOOLEAN : ExportToSofer(evaled)

SpecExport == Init /\ [][NextExport]_vars

\* ------------------------------------------------------------------ codec
\* A sofer text is written from records <<uuid, parent_uuid, attribute_text,
\* content>>, one line each.
WriteSofer(recs) == Flatten([i \in 1..Len(recs) |-> sofer_line(recs[i])])

\* the structural inputs: up to MaxRecords records with pairwise distinct
\* uuids of 1..MaxRecords in any order of lines, each under the nil uuid or
\* under any uuid of 1..MaxRecords, with no attributes and the content "a"
DistinctUuids(k) ==
    {f \in [1..k -> 1..MaxRecords] : \A i, j \in 1..k : i # j => f[i] # f[j]}

StructRecords(ids, parents) ==
    [i \in 1..Len(ids) |-> <<ids[i], parents[i], <<>>, <<"a">>>>]

\* attribute texts and contents of the inputs with payload
AttrTexts ==
    { <<>>,
      <<"k", "=", "\"", "x", "\"", ";">>,
      <<"k", "=", "\"", "\"", ";">>,
      <<"k", "=", "\"", "x", "\"", ";", "b", "=", "T", ";">>,
      <<"b", "=", "F", ";">>,
      <<"n", "=", "3", ";">>,
      <<"n", "=", "1", "2", ";", "n", "=", "0", ";">> }

Contents ==
    { <<>>, <<"h">>, <<"h", " ", "i">>, <<" ", "h", " ", " ", "i">>, <<"a", "@", "r">> }

\* the inputs with payload: one top-level record, alone or with a child
RichInputs ==
    { <<<<1, Nil, a, c>>>> : a \in AttrTexts, c \in Contents }
    \cup { <<<<2, Nil, a, c>>, <<1, 2, <<>>, c>>>> : a \in AttrTexts, c \in Contents }

\* Lua sources, as the values Lua::eval yields for them
LuaNodeLit(raw, attributes) ==
    LuaTable(<< <<KeyRaw, LuaString(raw)>>, <<KeyAttributes, LuaTable(attributes)>> >>)

LuaTreeLit(uuid, value, children) ==
    LuaTable(<< <<KeyValue, value>>, <<KeyUuid, LuaString(Hyphenated(uuid))>>,
                <<KeyChildren, LuaList(children)>> >>)

LuaAttrs ==
    { <<>>,
      << <<LuaString(<<"k">>), LuaString(<<"x">>)>> >>,
      << <<LuaString(<<"k">>), LuaString(<<"x", " ", "y">>)>> >>,
      << <<LuaString(<<"n">>), LuaNumber(3)>>, <<LuaString(<<"b">>), LuaBoolean(FALSE)>> >> }

LuaLeaves(uuid) == { LuaTreeLit(uuid, LuaNodeLit(<<"h">>, a), <<>>) : a \in LuaAttrs }

\* a root with the nil uuid or the uuid 2, and under it the leaf 1, the
\* leaves 3 and 1, or the leaf 3 with the leaf 1 under it; and the nil root
\* alone
LuaInputs ==
    { LuaTreeLit(Nil, LuaNodeLit(<<>>, <<>>), <<>>) }
    \cup UNION { { LuaTreeLit(r, LuaNodeLit(<<>>, <<>>), <<c>>) : c \in LuaLeaves(1) }
                 \cup { LuaTreeLit(r, LuaNodeLit(<<>>, <<>>), <<c, d>>) :
                           c \in LuaLeaves(3), d \in LuaLeaves(1) }
                 \cup { LuaTreeLit(r, LuaNodeLit(<<>>, <<>>),
                                   <<LuaTreeLit(3, LuaNodeLit(<<"g">>, <<>>), <<c>>)>>) :
                           c \in LuaLeaves(1) } :
                 r \in {Nil, 2} }

\* tree = TreeNode::import_from_sofer(str); recs are the records str was
\* written from
ImportFromSofer(str, recs) ==
    /\ ~out.panic
    /\ LET r == import_from_sofer(str)
       IN  IF r.panic
           THEN /\ out' = Panicked("import_from_sofer", <<str, recs>>, r.msg, tree)
                /\ UNCHANGED tree
           ELSE /\ out' = Call("import_from_sofer", <<str, recs>>, r.v, tree)
                /\ tree' = r.v

\* tree = TreeNode::import_from_lua(lua_code), lua_value the value of lua_code
ImportFromLua(lua_value) ==
    /\ ~out.panic
    /\ LET r == import_from_lua(lua_value)
       IN  IF r.panic
           THEN /\ out' = Panicked("import_from_lua", <<lua_value>>, r.msg, tree)
                /\ UNCHANGED tree
           ELSE /\ out' = Call("import_from_lua", <<lua_value>>, r.v, tree)
                /\ tree' = r.v

\* the codec: a tree imported from sofer text or from Lua, exported to sofer
\* text, and the exported raw text imported again
NextCodec ==
    \/ /\ out.op = "none"
       /\ \E k \in 0..MaxRecords :
            \E ids \in DistinctUuids(k), parents \in [1..k -> 0..MaxRecords] :
               ImportFromSofer(WriteSofer(StructRecords(ids, parents)),
                               StructRecords(ids, parents))
    \/ /\ out.op = "none"
       /\ \E recs \in RichInputs : ImportFromSofer(WriteSofer(recs), recs)
    \/ /\ out.op = "none"
       /\ \E lua_value \in LuaInputs : ImportFromLua(lua_value)
    \/ /\ out.op \in {"import_from_sofer", "import_from_lua"}
       /\ \E evaled \in BOOLEAN : ExportToSofer(evaled)
    \/ /\ out.op = "export_to_sofer" /\ out.args = <<FALSE>>
       /\ ImportFromSofer(out.ret, export_records(tree, FALSE))

SpecCodec == Init /\ [][NextCodec]_vars

\* the parsed texts: up to MaxParse records with pairwise distinct uuids of
\* 1..MaxParse in any order of lines, each under the nil uuid, under a uuid
\* of 1..MaxParse or under the uuid MaxParse + 1 that no record carries
ParseIds(k) ==
    {f \in [1..k -> 1..MaxParse] : \A i, j \in 1..k : i # j => f[i] # f[j]}

NextParse ==
    /\ out.op = "none"
    /\ \E k \in 0..MaxParse :
         \E ids \in ParseIds(k), parents \in [1..k -> 0..(MaxParse + 1)] :
            ImportFromSofer(WriteSofer(StructRecords(ids, parents)),
                            StructRecords(ids, parents))

SpecParse == Init /\ [][NextParse]_vars

\* ------------------------------------------------------------------ Lua
ExportToLua ==
    /\ ~out.panic
    /\ out' = Call("export_to_lua", <<>>, export_to_lua(tree), tree)
    /\ UNCHANGED tree

\* tree = TreeNode::import_from_lua(lua_code)
ImportFromLuaCode(lua_code) ==
    /\ ~out.panic
    /\ LET r == import_from_lua_code(lua_code)
       IN  IF r.panic
           THEN /\ out' = Panicked("import_from_lua_code", <<lua_code>>, r.msg, tree)
                /\ UNCHANGED tree
           ELSE /\ out' = Call("import_from_lua_code", <<lua_code>>, r.v, tree)
                /\ tree' = r.v

\* the script literal: a tree imported from Lua, evaluated as a whole or
\* not, exported as Lua source, and the source imported again
NextLua ==
    \/ /\ out.op = "none"
       /\ \E lua_value \in LuaInputs : ImportFromLua(lua_value)
    \/ /\ out.op = "import_from_lua"
       /\ EvalAll
    \/ /\ out.op \in {"import_from_lua", "eval_all"}
       /\ ExportToLua
    \/ /\ out.op = "export_to_lua"
       /\ ImportFromLuaCode(out.ret)

SpecLua == Init /\ [][NextLua]_vars

\* ------------------------------------------------------------------ bridge
\* Node::from_lua(lua_value, lua): the Result is what the caller gets
NodeFromLua(lua_value) ==
    /\ ~out.panic
    /\ out' = Call("Node::from_lua", <<lua_value>>, Node_from_lua(lua_value), tree)
    /\ UNCHANGED tree

\* Tree::from_lua(lua_value, lua): the Result, or the panic of the unwrap
TreeFromLua(lua_value) ==
    /\ ~out.panic
    /\ LET r == Tree_from_lua(lua_value)
       IN  out' = IF r.panic
                  THEN Panicked("Tree::from_lua", <<lua_value>>, r.v, tree)
                  ELSE Call("Tree::from_lua", <<lua_value>>, r, tree)
    /\ UNCHANGED tree

\* the table of the fields given as <<key, value>>, a nil value being a
\* field the table does not have
RECURSIVE Present(_)
Present(fields) ==
    IF fields = <<>> THEN <<>>
    ELSE (IF Head(fields)[2].t = "nil" THEN <<>> ELSE <<Head(fields)>>)
         \o Present(Tail(fields))

WithFields(fields) == LuaTable(Present(fields))

\* the values met under raw, evaled and attributes
RawShapes == << LuaNil, LuaString(<<"h">>), LuaNumber(3), LuaBoolean(TRUE) >>

EvaledShapes == << LuaNil, LuaString(<<"e">>), LuaNumber(3) >>

\* an attributes table of a string, a number and a boolean, and one with an
\* entry whose value is a table
TypedAttributes ==
    LuaTable(<< <<LuaString(<<"k">>), LuaString(<<"x">>)>>,
                <<LuaString(<<"n">>), LuaNumber(3)>>,
                <<LuaString(<<"b">>), LuaBoolean(FALSE)>> >>)

TableAttribute ==
    LuaTable(<< <<LuaString(<<"k">>), LuaTable(<<>>)>>,
                <<LuaString(<<"n">>), LuaNumber(3)>> >>)

AttributesShapes ==
    << LuaNil, LuaTable(<<>>), TypedAttributes, TableAttribute, LuaString(<<"x">>) >>

NodeValue(raw, evaled, attributes) ==
    WithFields(<< <<KeyRaw, raw>>, <<KeyEvaled, evaled>>, <<KeyAttributes, attributes>> >>)

\* no table
Scalars == << LuaNil, LuaString(<<"h">>) >>

TreeValue(value, uuid, children) ==
    WithFields(<< <<KeyValue, value>>, <<KeyUuid, uuid>>, <<KeyChildren, children>> >>)

\* a well-formed tree table with the uuid u, the raw text h and the children
BridgeTree(u, children) ==
    TreeValue(NodeValue(LuaString(<<"h">>), LuaNil, LuaTable(<<>>)),
              LuaString(Hyphenated(u)), LuaList(children))

\* the values met under value, uuid and children
ValueShapes ==
    << NodeValue(LuaString(<<"g">>), LuaString(<<"e">>), TypedAttributes),
      NodeValue(LuaString(<<"g">>), LuaNil, LuaNil),
      NodeValue(LuaString(<<"g">>), LuaNil, TableAttribute),
      NodeValue(LuaBoolean(TRUE), LuaNil, LuaTable(<<>>)),
      LuaNil >>

UuidShapes ==
    << LuaString(Hyphenated(4)), LuaString(<<"x", "1">>), LuaNil, LuaBoolean(TRUE) >>

ChildrenShapes ==
    << LuaList(<<>>),
      LuaList(<<BridgeTree(1, <<>>)>>),
      LuaList(<<BridgeTree(2, <<>>), BridgeTree(1, <<>>)>>),
      LuaList(<<BridgeTree(3, <<BridgeTree(2, <<>>), BridgeTree(5, <<>>)>>),
                BridgeTree(1, <<BridgeTree(6, <<>>)>>)>>),
      LuaList(<<BridgeTree(1, <<>>), LuaString(<<"x">>)>>),
      LuaList(<<BridgeTree(1, <<>>),
                TreeValue(NodeValue(LuaString(<<"h">>), LuaNil, LuaTable(<<>>)),
                          LuaString(<<"x", "1">>), LuaList(<<>>))>>),
      LuaList(<<TreeValue(NodeValue(LuaString(<<"h">>), LuaNil, TableAttribute),
                          LuaString(Hyphenated(1)), LuaList(<<>>))>>),
      LuaString(<<"x">>),
      LuaNil >>

\* the bridge: script values converted to nodes and to trees; a table with
\* each shape under each of its keys, or no table
NextBridge ==
    \/ \E r \in DOMAIN RawShapes, e \in DOMAIN EvaledShapes, a \in DOMAIN AttributesShapes :
          NodeFromLua(NodeValue(RawShapes[r], EvaledShapes[e], AttributesShapes[a]))
    \/ \E i \in DOMAIN Scalars : NodeFromLua(Scalars[i])
    \/ \E v \in DOMAIN ValueShapes, u \in DOMAIN UuidShapes, c \in DOMAIN ChildrenShapes :
          TreeFromLua(TreeValue(ValueShapes[v], UuidShapes[u], ChildrenShapes[c]))
    \/ \E i \in DOMAIN Scalars : TreeFromLua(Scalars[i])

SpecBridge == Init /\ [][NextBridge]_vars

\* ------------------------------------------------------------------ argument
\* The evaluated trees, as Lua values: the nil root and under it the nodes
\* 1..k, the node i under parents[i] (the root or an earlier node), with the
\* formula raws[i] as raw text and, if attributed[i], with attributes and
\* with the evaled text e of an earlier evaluation.
ArgContents == { <<"a", "@", "r">>, <<"@", " ", "n">> }

ArgNode(i, raws, attributed) ==
    IF i = 0 THEN NodeValue(LuaString(<<>>), LuaNil, LuaTable(<<>>))
    ELSE IF attributed[i]
    THEN NodeValue(LuaString(raws[i]), LuaString(<<"e">>), TypedAttributes)
    ELSE NodeValue(LuaString(raws[i]), LuaNil, LuaTable(<<>>))

RECURSIVE ArgTree(_, _, _, _)
RECURSIVE ArgChildren(_, _, _, _, _)
ArgChildren(i, j, parents, raws, attributed) ==
    IF j > Len(parents) THEN <<>>
    ELSE (IF parents[j] = i THEN <<ArgTree(j, parents, raws, attributed)>> ELSE <<>>)
         \o ArgChildren(i, j + 1, parents, raws, attributed)

ArgTree(i, parents, raws, attributed) ==
    TreeValue(ArgNode(i, raws, attributed), LuaString(Hyphenated(i)),
              LuaList(ArgChildren(i, i + 1, parents, raws, attributed)))

\* a tree imported, evaluated as a whole any number of times, and one node
\* evaluated
NextArg ==
    \/ /\ out.op = "none"
       /\ \E k \in 1..MaxArg :
            \E parents \in {f \in [1..k -> 0..(k - 1)] : \A i \in 1..k : f[i] < i},
               raws \in [1..k -> ArgContents], attributed \in [1..k -> BOOLEAN] :
               ImportFromLua(ArgTree(0, parents, raws, attributed))
    \/ /\ out.op \in {"import_from_lua", "eval_all"}
       /\ EvalAll
    \/ /\ out.op \in {"import_from_lua", "eval_all"}
       /\ \E uuid \in 0..MaxArg : Eval(uuid)

SpecArg == Init /\ [][NextArg]_vars

\* ------------------------------------------------------------------ reader
\* nodes = reader::read_nodes(str)
ReadNodes(str) ==
    /\ ~out.panic
    /\ LET r == read_nodes(str)
       IN  out' = IF r.panic THEN Panicked("read_nodes", <<str>>, r.msg, tree)
                  ELSE Call("read_nodes", <<str>>, r.v, tree)
    /\ UNCHANGED tree

\* attributes = read_attributes(attributes_string), the string written from
\* the pieces
ReadAttributes(pieces) ==
    /\ ~out.panic
    /\ LET attributes_string == Flatten([i \in 1..Len(pieces) |-> pieces[i].text])
           r == read_attributes(attributes_string)
       IN  out' = IF r.panic
                  THEN Panicked("read_attributes", <<attributes_string, pieces>>, r.msg, tree)
                  ELSE Call("read_attributes", <<attributes_string, pieces>>, r.v, tree)
    /\ UNCHANGED tree

\* one name=value; entry of an attribute text
Entry(name, value) ==
    [value |-> value, text |-> name \o <<"=">> \o value \o <<";">>, name |-> name,
     entry |-> TRUE]

\* a piece of an attribute text that is no name=value; entry
Broken(text) == [value |-> <<>>, text |-> text, name |-> <<>>, entry |-> FALSE]

\* the values of the entries: the two booleans, numbers, quoted texts; T and
\* F followed by more characters, a word, a quoted text followed by a
\* character, a quoted text that is not closed, and no value
EntryValues ==
    { <<"T">>, <<"F">>, <<"3">>, <<"1", "2">>, <<"\"", "x", "\"">>, <<"\"", "\"">>,
      <<"\"", "T", "\"">>, <<"\"", "x", " ", "y", "\"">>,
      <<"T", "x">>, <<"F", "1">>, <<"T", "r", "u">>, <<"x">>,
      <<"\"", "x", "\"", "y">>, <<"\"", "x">>, <<>> }

\* the pieces: an entry for every value, an entry without its ';' and a
\* name without '='
Pieces ==
    { Entry(<<"k">>, v) : v \in EntryValues }
    \cup { Broken(<<"k", "=", "3">>), Broken(<<"k", ";">>) }

\* the lines of the texts read: fields of an identifier, a parent
\* identifier, an attribute text and a content, a space between them
RawLine(uuid_string, parent_uuid_string, attributes_string, content) ==
    uuid_string \o <<" ">> \o parent_uuid_string \o <<" ">> \o attributes_string
    \o <<" ">> \o content \o <<"\n">>

FirstLines ==
    { RawLine(u, p, a, c) :
        u \in { <<"0", "-", "1">>, <<"0", "-", "2">>, <<"x", "1">>, <<>> },
        p \in { <<"0", "-", "0">>, <<"0", "-", "2">>, <<"0", "-", "z">> },
        a \in { <<>>, <<"k", "=", "\"", "x", "\"", ";", "b", "=", "T", ";">>,
                <<"k", "=", "3">>, <<"k", ";">> },
        c \in { <<>>, <<"h">>, <<" ", "h", " ", " ", "i">>, <<"h", " ", "i", " ">> } }

\* nothing, a record, a record with a wrong identifier, a record with a
\* name without '=' in its attribute text
SecondLines ==
    { <<>>,
      RawLine(<<"0", "-", "3">>, <<"0", "-", "1">>, <<>>, <<"w">>),
      RawLine(<<"y">>, <<"0", "-", "0">>, <<>>, <<"w">>),
      RawLine(<<"0", "-", "3">>, <<"0", "-", "0">>, <<"k", ";">>, <<"w">>) }

\* the end of the text: nothing, an empty line, a line without its newline,
\* and characters without newline that are no record
LastLines ==
    { <<>>, <<"\n">>,
      <<"0", "-", "4", " ", "0", "-", "0", " ", " ", "t">>,
      <<"x", "9", " ", "k", ";">> }

\* the reader: a text read into records, a text imported as a tree, an
\* attribute text read into attributes
NextReader ==
    \/ /\ out.op = "none"
       /\ \E l1 \in FirstLines, l2 \in SecondLines, l3 \in LastLines :
             ReadNodes(l1 \o l2 \o l3)
    \/ /\ out.op = "none"
       /\ \E l1 \in FirstLines \cup {<<>>}, l2 \in SecondLines, l3 \in LastLines :
             ImportFromSofer(l1 \o l2 \o l3, <<>>)
    \/ /\ out.op = "none"
       /\ \E pieces \in {<<>>} \cup { <<x>> : x \in Pieces }
                         \cup { <<x, y>> : x \in Pieces, y \in Pieces } :
             ReadAttributes(pieces)

SpecReader == Init /\ [][NextReader]_vars

\* ------------------------------------------------------------------ properties
\* The vocabulary of the properties: the nodes of a tree, the links between
\* them and the records of a text, each defined on the data alone.

\* the nodes reachable from t over first_child and next_sibling, t included
RECURSIVE Nodes(_)
Nodes(t) ==
    {t}
    \cup (IF IsSome(t.first_child) THEN Nodes(t.first_child[1]) ELSE {})
    \cup (IF IsSome(t.next_sibling) THEN Nodes(t.next_sibling[1]) ELSE {})

\* the number of nodes of an optional subtree with its sibling chain
RECURSIVE Size(_)
Size(o) ==
    IF o = None THEN 0
    ELSE 1 + Size(o[1].first_child) + Size(o[1].next_sibling)

\* the children of a node, first to last
RECURSIVE Chain(_)
Chain(o) == IF o = None THEN <<>> ELSE <<o[1]>> \o Chain(o[1].next_sibling)

ChildrenOf(n) == Chain(n.first_child)

\* a node without its place among its siblings: uuid, payload and subtree
Detached(n) == [n EXCEPT !.next_sibling = None]

\* the node of t that carries the uuid u (uuids pairwise distinct)
NodeWith(t, u) == CHOOSE n \in Nodes(t) : n.uuid = u

\* the pairs <<parent uuid, child uuid>> of t
ParentLinks(t) ==
    UNION { { <<n.uuid, ChildrenOf(n)[i].uuid>> : i \in 1..Len(ChildrenOf(n)) } :
            n \in Nodes(t) }

\* uuids pairwise distinct: as many uuids as nodes
DistinctUuidsIn(t) == Cardinality(UuidsOf(t)) = Size(Some(t))

\* C4: insert(p, n) with p the uuid of a node of the tree and n detached
\* returns true, and the children of the node p are then its previous
\* children, unchanged and in their previous order, followed by n.
C4_InsertAppendsLast ==
    (out.op = "insert" /\ out.args[1] \in UuidsOf(out.before[1]))
    => /\ out.ret = TRUE
       /\ LET was == ChildrenOf(NodeWith(out.before[1], out.args[1]))
              now == ChildrenOf(NodeWith(tree, out.args[1]))
          IN  /\ Len(now) = Len(was) + 1
              /\ \A i \in 1..Len(was) : Detached(now[i]) = Detached(was[i])
              /\ now[Len(now)] = out.args[2]

\* an insert under a node that already had two children
C4_Witness ==
    /\ out.op = "insert"
    /\ out.args[1] \in UuidsOf(out.before[1])
    /\ Len(ChildrenOf(NodeWith(out.before[1], out.args[1]))) >= 2

\* C5: insert(p, n) with p the uuid of no node of the tree returns false
\* and leaves the tree equal to the tree before the call.
C5_InsertNoOp ==
    (out.op = "insert" /\ out.args[1] \notin UuidsOf(out.before[1]))
    => /\ out.ret = FALSE
       /\ tree = out.before[1]

\* a failed insert into a tree with a grandchild and a sibling
C5_Witness ==
    /\ out.op = "insert"
    /\ out.args[1] \notin UuidsOf(out.before[1])
    /\ \E n \in Nodes(tree) :
          n.uuid # Nil /\ IsSome(n.first_child) /\ IsSome(n.next_sibling)

\* C6: find(uuid) returns the node of the tree that carries uuid when there
\* is one, and none when no node carries it.
C6_FindTotal ==
    out.op = "find"
    => IF out.args[1] \in UuidsOf(tree)
       THEN /\ IsSome(out.ret)
            /\ out.ret[1] \in Nodes(tree)
            /\ out.ret[1].uuid = out.args[1]
       ELSE out.ret = None

\* a find of the second child of a node other than the root
C6_Witness ==
    /\ out.op = "find"
    /\ IsSome(out.ret)
    /\ \E n \in Nodes(tree) :
          /\ n.uuid # Nil
          /\ Len(ChildrenOf(n)) >= 2
          /\ ChildrenOf(n)[2].uuid = out.args[1]

\* C7: traverse yields the nodes in pre-order, the root first at depth 0,
\* the first child of an entry right after it one level deeper, the next
\* sibling of an entry after the entry's whole subtree at the entry's
\* depth, with exactly one entry for every node of the tree.
C7_TraversePreOrder ==
    out.op = "traverse"
    => LET v == out.ret
       IN  /\ Len(v) = Size(Some(tree))
           /\ {v[i][2] : i \in 1..Len(v)} = Nodes(tree)
           /\ v[1] = <<0, tree>>
           /\ \A i \in 1..Len(v) :
                LET d == v[i][1]
                    n == v[i][2]
                    j == i + 1 + Size(n.first_child)
                IN  /\ IsSome(n.first_child)
                       => i + 1 <= Len(v) /\ v[i + 1] = <<d + 1, n.first_child[1]>>
                    /\ IsSome(n.next_sibling)
                       => j <= Len(v) /\ v[j] = <<d, n.next_sibling[1]>>

\* a traversal with an entry at depth 2 and a node with a child and a sibling
C7_Witness ==
    /\ out.op = "traverse"
    /\ \E i \in 1..Len(out.ret) : out.ret[i][1] = 2
    /\ \E i \in 1..Len(out.ret) :
          /\ out.ret[i][1] = 1
          /\ IsSome(out.ret[i][2].first_child)
          /\ IsSome(out.ret[i][2].next_sibling)

\* the first '@' of a text: its index, or one past the end without an '@'
FirstAt(raw) ==
    IF \E i \in 1..Len(raw) : raw[i] = "@"
    THEN CHOOSE i \in 1..Len(raw) : raw[i] = "@" /\ \A j \in 1..(i - 1) : raw[j] # "@"
    ELSE Len(raw) + 1

\* the text a formula source contributes for the node n: the result of the
\* call of a callable, the placeholder when the call fails, the formatted
\* value or the formatted error
FormulaText(src, n) ==
    LET r == LuaEval(src)
    IN  IF r.ok /\ r.v.t = "function"
        THEN IF LuaCall(r.v, Tree_to_lua(n)).ok
             THEN LuaCall(r.v, Tree_to_lua(n)).v
             ELSE ErrorFunction
        ELSE IF r.ok THEN DebugValue(r.v) ELSE DebugError(r.v)

\* the formula of n yields a callable and the call of it fails
CallFails(n) ==
    LET raw == n.value.raw
        r == LuaEval(SubSeq(raw, FirstAt(raw) + 1, Len(raw)))
    IN  /\ FirstAt(raw) < Len(raw)
        /\ r.ok
        /\ r.v.t = "function"
        /\ ~LuaCall(r.v, Tree_to_lua(n)).ok

\* C8: eval_all does not abort, and after it every node of the tree (the
\* root, every descendant, every sibling) has evaled set to a string; a
\* node whose formula call fails has the text before its '@' followed by
\* the fixed placeholder.
C8_EvalAllContained ==
    out.op = "eval_all"
    => /\ ~out.panic
       /\ \A n \in Nodes(tree) :
             /\ IsSome(n.value.evaled)
             /\ CallFails(n)
                => n.value.evaled[1] =
                      SubSeq(n.value.raw, 1, FirstAt(n.value.raw) - 1) \o ErrorFunction

\* an eval_all over a tree where a node whose call fails has a next sibling,
\* and another over a tree where it has a child: both in one predicate
C8_Witness ==
    /\ out.op = "eval_all"
    /\ \E n \in Nodes(tree) :
          /\ CallFails(n)
          /\ IsSome(n.next_sibling) \/ IsSome(n.first_child)
          /\ \A m \in Nodes(n) : IsSome(m.value.evaled)

\* C9: eval splits raw at its first '@' only.  The result is the text before
\* the first '@' followed by the text of the formula, the formula source is
\* everything after the first '@' (later '@' included), and without an '@'
\* or with nothing after it the result is the prefix and no formula is run.
C9_EvalSplitsAtFirstAt ==
    (out.op = "eval" /\ ~out.panic)
    => LET n == out.args[1]
           raw == n.value.raw
           prefix == SubSeq(raw, 1, FirstAt(raw) - 1)
           src == SubSeq(raw, FirstAt(raw) + 1, Len(raw))
       IN  IF src = <<>>
           THEN out.ret = prefix /\ out.args[2] = <<>>
           ELSE out.ret = prefix \o FormulaText(src, n) /\ out.args[2] = <<src>>

\* an eval of a node whose raw text has two '@'
C9_Witness ==
    /\ out.op = "eval"
    /\ ~out.panic
    /\ Cardinality({i \in 1..Len(out.args[1].value.raw) :
                       out.args[1].value.raw[i] = "@"}) = 2

\* the chain of parent references from the uuid u ends at the nil uuid
RECURSIVE AncestorIn(_, _, _)
AncestorIn(recs, u, fuel) ==
    \/ u = Nil
    \/ /\ fuel > 0
       /\ \E i \in 1..Len(recs) : recs[i][1] = u /\ AncestorIn(recs, recs[i][2], fuel - 1)

\* well-formed records: uuids pairwise distinct and not nil, and every chain
\* of parent references ends at the nil uuid
IsForest(recs) ==
    /\ \A i, j \in 1..Len(recs) : i # j => recs[i][1] # recs[j][1]
    /\ \A i \in 1..Len(recs) : recs[i][1] # Nil /\ AncestorIn(recs, recs[i][1], Len(recs))

\* the number of nodes of an optional subtree that carry the uuid u
RECURSIVE Count(_, _)
Count(o, u) ==
    IF o = None THEN 0
    ELSE (IF o[1].uuid = u THEN 1 ELSE 0)
         + Count(o[1].first_child, u) + Count(o[1].next_sibling, u)

Occurrences(t, u) == Count(Some(t), u)

\* C1: parsing a text of well-formed records whose parent references form a
\* forest under the nil uuid succeeds and places every record exactly once,
\* as a child of the node that carries its parent uuid.
C1_ParsePlacesEveryRecord ==
    (out.op = "import_from_sofer" /\ IsForest(out.args[2]))
    => /\ ~out.panic
       /\ \A i \in 1..Len(out.args[2]) :
             /\ Occurrences(tree, out.args[2][i][1]) = 1
             /\ <<out.args[2][i][2], out.args[2][i][1]>> \in ParentLinks(tree)

\* the records <<uuid, parent uuid, attributes, raw>> of the nodes under the
\* root of t
NodeRecords(t) ==
    { <<c.uuid, n.uuid, c.value.attributes, c.value.raw>> :
        <<n, c>> \in UNION { { <<m, ChildrenOf(m)[i]>> : i \in 1..Len(ChildrenOf(m)) } :
                             m \in Nodes(t) } }

\* valid content: no '"' in the value of a text attribute, no newline in raw
ValidContent(t) ==
    \A n \in Nodes(t) :
       /\ \A i \in 1..Len(n.value.raw) : n.value.raw[i] # "\n"
       /\ \A i \in 1..Len(n.value.attributes) :
             n.value.attributes[i].kind = "String"
             => \A j \in 1..Len(n.value.attributes[i].val) :
                   n.value.attributes[i].val[j] # "\""

\* C2: importing the raw export of a tree with the nil uuid at its root,
\* pairwise distinct uuids and valid content succeeds and yields exactly the
\* nodes of the tree, each with its uuid, parent uuid, attributes and raw text.
C2_RoundTrip ==
    (/\ out.op = "import_from_sofer"
     /\ out.before[1].uuid = Nil
     /\ DistinctUuidsIn(out.before[1])
     /\ ValidContent(out.before[1])
     /\ out.args[1] = export_to_sofer(out.before[1], FALSE))
    => /\ ~out.panic
       /\ NodeRecords(tree) = NodeRecords(out.before[1])
       /\ Size(Some(tree)) = Size(Some(out.before[1]))

\* the sequence s in the order perm
Permuted(s, perm) == [i \in 1..Len(s) |-> s[perm[i]]]

\* C3: the tree parsed from a text of records is the tree parsed from every
\* permutation of its lines.
C3_ParseOrderIndependent ==
    (out.op = "import_from_sofer" /\ ~out.panic)
    => \A perm \in Permutations(1..Len(out.args[2])) :
          import_from_sofer(WriteSofer(Permuted(out.args[2], perm))) = Done(tree)

\* the lines of a text: the runs of characters that end in a newline
RECURSIVE SplitLines(_, _)
SplitLines(text, line) ==
    IF text = <<>> THEN <<>>
    ELSE IF Head(text) = "\n" THEN <<Append(line, "\n")>> \o SplitLines(Tail(text), <<>>)
    ELSE SplitLines(Tail(text), Append(line, Head(text)))

\* the line of the node c whose structural parent carries the uuid p
LineOf(c, p, evaled) ==
    sofer_line(<<c.uuid, p, export_attributes(c), export_text(c, evaled)>>)

\* C10: export_to_sofer writes exactly one line for every node that does not
\* carry the nil uuid, with the uuid of the node's structural parent (nil for a
\* node without one), whatever the uuids of the root and of the nodes.
C10_ExportOmitsOnlyNilRoot ==
    out.op = "export_to_sofer"
    => LET lines == SplitLines(out.ret, <<>>)
           top == Chain(Some(tree))
       IN  /\ Len(lines) = Cardinality({n \in Nodes(tree) : n.uuid # Nil})
           /\ {lines[i] : i \in 1..Len(lines)} =
                 { LineOf(top[i], Nil, out.args[1]) :
                     i \in {k \in 1..Len(top) : top[k].uuid # Nil} }
                 \cup UNION { { LineOf(ChildrenOf(m)[i], m.uuid, out.args[1]) :
                                  i \in {k \in 1..Len(ChildrenOf(m)) :
                                            ChildrenOf(m)[k].uuid # Nil} } :
                              m \in Nodes(tree) }

\* the characters of s before its first space
RECURSIVE UpToSpace(_)
UpToSpace(s) ==
    IF s = <<>> \/ Head(s) = " " THEN <<>> ELSE <<Head(s)>> \o UpToSpace(Tail(s))

\* the characters of s after its k-th space
RECURSIVE AfterSpace(_, _)
AfterSpace(s, k) ==
    IF k = 0 \/ s = <<>> THEN s
    ELSE AfterSpace(Tail(s), IF Head(s) = " " THEN k - 1 ELSE k)

\* the uuid written at the head of a line
LineUuid(line) == Uuid_parse_str(UpToSpace(line))[1]

\* the content of a line: what follows its third space, up to the newline
LineContent(line) ==
    LET rest == AfterSpace(line, 3)
    IN  IF rest # <<>> /\ rest[Len(rest)] = "\n" THEN SubSeq(rest, 1, Len(rest) - 1) ELSE rest

\* the chain of the nodes ns, in this order
RECURSIVE ChainOf(_)
ChainOf(ns) ==
    IF ns = <<>> THEN None
    ELSE Some([Head(ns) EXCEPT !.next_sibling = ChainOf(Tail(ns))])

\* the tree t with the children of every node in the reverse order
RECURSIVE Mirror(_)
Mirror(t) ==
    LET cs == ChildrenOf(t)
    IN  [t EXCEPT !.first_child =
            ChainOf([i \in 1..Len(cs) |-> Mirror(cs[Len(cs) + 1 - i])])]

\* C11: the lines export_to_sofer writes for a tree with pairwise distinct
\* uuids are in ascending order of the uuid at their head, and the tree with
\* the same nodes under the same parents in the reverse sibling order gives
\* the same text.
C11_ExportSortedById ==
    (out.op = "export_to_sofer" /\ DistinctUuidsIn(tree))
    => LET lines == SplitLines(out.ret, <<>>)
       IN  /\ \A i, j \in 1..Len(lines) : i < j => LineUuid(lines[i]) < LineUuid(lines[j])
           /\ export_to_sofer(Mirror(tree), out.args[1]) = out.ret

\* an export of three lines for a tree whose root has a child with a greater
\* uuid before a child with a smaller one
C11_Witness ==
    /\ out.op = "export_to_sofer"
    /\ Len(SplitLines(out.ret, <<>>)) = 3
    /\ Len(ChildrenOf(tree)) >= 2
    /\ ChildrenOf(tree)[1].uuid > ChildrenOf(tree)[2].uuid
    /\ Mirror(tree) # tree

\* C19: every line export_to_sofer writes carries the text of its node: the
\* raw text when evaled is false; when evaled is true the evaled text of the
\* node if it has one and its raw text if it has none.
C19_ExportTextSelection ==
    (out.op = "export_to_sofer" /\ DistinctUuidsIn(tree))
    => LET lines == SplitLines(out.ret, <<>>)
       IN  \A i \in 1..Len(lines) :
              \E n \in Nodes(tree) :
                 /\ n.uuid = LineUuid(lines[i])
                 /\ LineContent(lines[i]) =
                       IF out.args[1] /\ n.value.evaled # None
                       THEN n.value.evaled[1]
                       ELSE n.value.raw

\* an evaled export of a tree whose nodes stand at depth one and two, one of
\* them with an evaled text that differs from its raw text and one with none
C19_Witness ==
    /\ out.op = "export_to_sofer"
    /\ out.args = <<TRUE>>
    /\ Len(SplitLines(out.ret, <<>>)) = 3
    /\ \E c \in 1..Len(ChildrenOf(tree)) : ChildrenOf(ChildrenOf(tree)[c]) # <<>>
    /\ \E n, m \in Nodes(tree) :
          /\ n.uuid # Nil /\ m.uuid # Nil
          /\ n.value.evaled # None /\ n.value.evaled[1] # n.value.raw
          /\ m.value.evaled = None

\* the record i of recs names a parent that is neither the nil uuid nor the
\* uuid of a record
Orphan(recs, i) ==
    /\ recs[i][2] # Nil
    /\ \A j \in 1..Len(recs) : recs[j][1] # recs[i][2]

\* C12 as stated: parsing succeeds and a record whose parent is neither the
\* nil uuid nor the uuid of a record is nowhere in the tree.
C12_OrphanDropped ==
    out.op = "import_from_sofer"
    => /\ ~out.panic
       /\ \A i \in 1..Len(out.args[2]) :
             Orphan(out.args[2], i) => Occurrences(tree, out.args[2][i][1]) = 0

\* C12, amended: parsing succeeds and a record whose parent is neither the
\* nil uuid nor the uuid of a record is in the tree exactly once, as a child
\* of the root.
C12_OrphanTopLevel ==
    out.op = "import_from_sofer"
    => /\ ~out.panic
       /\ \A i \in 1..Len(out.args[2]) :
             Orphan(out.args[2], i)
             => /\ Occurrences(tree, out.args[2][i][1]) = 1
                /\ <<Nil, out.args[2][i][1]>> \in ParentLinks(tree)

\* a parse of a text with a record under the nil uuid and a record under a
\* uuid that no record carries
C12_Witness ==
    /\ out.op = "import_from_sofer"
    /\ ~out.panic
    /\ \E i, j \in 1..Len(out.args[2]) :
          Orphan(out.args[2], i) /\ out.args[2][j][2] = Nil

\* C13: every record whose parent is the uuid of no record is a child of the
\* root, and the records whose parent is its uuid are its children.
C13_TopLevelWithChildren ==
    (out.op = "import_from_sofer" /\ ~out.panic)
    => \A i \in 1..Len(out.args[2]) :
          (\A j \in 1..Len(out.args[2]) : out.args[2][j][1] # out.args[2][i][2])
          => /\ <<Nil, out.args[2][i][1]>> \in ParentLinks(tree)
             /\ \A j \in 1..Len(out.args[2]) :
                   out.args[2][j][2] = out.args[2][i][1]
                   => <<out.args[2][i][1], out.args[2][j][1]>> \in ParentLinks(tree)

\* the field k of a line: the characters between its spaces k - 1 and k
LineField(line, k) ==
    UpToSpace(AfterSpace(SelectSeq(line, LAMBDA c : c # "\n"), k - 1))

\* the text of an identifier: "0-" or "0" and decimal digits
IsUuidText(s) ==
    \/ Len(s) >= 3 /\ s[1] = "0" /\ s[2] = "-" /\ \A i \in 3..Len(s) : IsDigit(s[i])
    \/ Len(s) >= 2 /\ s[1] = "0" /\ \A i \in 2..Len(s) : IsDigit(s[i])

\* C14: read_nodes gives one record for every line, and the content of the
\* record is the text of the line after its third space up to the newline,
\* every later space kept.
C14_ContentAfterThirdSpace ==
    (out.op = "read_nodes" /\ ~out.panic)
    => LET lines == SplitLines(out.args[1], <<>>)
       IN  /\ Len(out.ret) = Len(lines)
           /\ \A i \in 1..Len(lines) :
                 \E j \in 1..Len(out.ret) :
                    /\ out.ret[j].uuid = LineUuid(lines[i])
                    /\ out.ret[j].content = LineContent(lines[i])

\* two lines read, one of them with a content that starts with a space and
\* has two spaces in a row
C14_Witness ==
    /\ out.op = "read_nodes"
    /\ ~out.panic
    /\ Len(out.ret) = 2
    /\ \E j \in 1..2 : out.ret[j].content = <<" ", "h", " ", " ", "i">>

\* a value between two quotes, with no quote inside
QuotedValue(v) ==
    /\ Len(v) >= 2
    /\ v[1] = "\"" /\ v[Len(v)] = "\""
    /\ \A i \in 2..(Len(v) - 1) : v[i] # "\""

\* C15: for an attribute text of one entry name=value;, the result is
\* Boolean(true) exactly when value is T and Boolean(false) exactly when it is
\* F; any other value that does not start with a quote gives a Number or
\* a failure; a quoted value gives the Text between the quotes.
C15_BooleanExactlyTF ==
    (out.op = "read_attributes" /\ Len(out.args[2]) = 1 /\ out.args[2][1].entry)
    => LET name == out.args[2][1].name
           v == out.args[2][1].value
           gives(a) == ~out.panic /\ out.ret = <<a>>
       IN  /\ gives(AttrBoolean(name, TRUE)) <=> v = <<"T">>
           /\ gives(AttrBoolean(name, FALSE)) <=> v = <<"F">>
           /\ QuotedValue(v) => gives(AttrString(name, SubSeq(v, 2, Len(v) - 1)))
           /\ (v = <<>> \/ v[1] # "\"") /\ v \notin {<<"T">>, <<"F">>}
              => out.panic \/ (Len(out.ret) = 1 /\ out.ret[1].kind = "Number")

\* a piece that is a complete entry: a name, '=', a value that is T, F, a
\* number or a quoted text, and ';'
CompleteEntry(piece) ==
    /\ piece.entry
    /\ piece.name # <<>>
    /\ \/ piece.value \in {<<"T">>, <<"F">>}
       \/ piece.value # <<>> /\ \A i \in 1..Len(piece.value) : IsDigit(piece.value[i])
       \/ QuotedValue(piece.value)

\* C16: an attribute text with a piece that is no complete entry makes
\* read_attributes fail.
C16_BadGrammarFatal ==
    (out.op = "read_attributes" /\ \E i \in 1..Len(out.args[2]) : ~CompleteEntry(out.args[2][i]))
    => out.panic

\* the first line of lines with an identifier or a parent identifier that
\* is no identifier
WrongUuidLines(lines) ==
    {i \in 1..Len(lines) :
        ~IsUuidText(LineField(lines[i], 1)) \/ ~IsUuidText(LineField(lines[i], 2))}

\* C17: when the identifier or the parent identifier of a line is no
\* identifier, reading the text and importing it fail and no tree is
\* returned; the failure carries the offending field of the first such line,
\* unless the attribute text of an earlier line has failed before.
C17_WrongUuidFatal ==
    LET lines == SplitLines(out.args[1], <<>>)
        wrong == WrongUuidLines(lines)
        b == CHOOSE i \in wrong : \A j \in wrong : i <= j
    IN  (out.op \in {"read_nodes", "import_from_sofer"} /\ wrong # {})
        => /\ out.panic
           /\ tree = out.before[1]
           /\ (\A i \in 1..(b - 1) : ~read_attributes(LineField(lines[i], 3)).panic)
              => out.ret = <<"Wrong UUID: ",
                             IF IsUuidText(LineField(lines[b], 1))
                             THEN LineField(lines[b], 2)
                             ELSE LineField(lines[b], 1)>>

\* an import of two lines, the second with a wrong identifier, that fails
\* with that identifier
C17_Witness ==
    /\ out.op = "import_from_sofer"
    /\ out.panic
    /\ out.ret = <<"Wrong UUID: ", <<"y">>>>
    /\ Len(SplitLines(out.args[1], <<>>)) = 2

\* C18: a text of records that is imported without failure, followed by an
\* empty line, is imported without failure as the same tree.
C18_BlankLineTerminates ==
    LET str == out.args[1]
        records == SubSeq(str, 1, Len(str) - 1)
    IN  (/\ out.op = "import_from_sofer"
         /\ str # <<>> /\ str[Len(str)] = "\n"
         /\ records = <<>> \/ records[Len(records)] = "\n"
         /\ ~import_from_sofer(records).panic)
        => /\ ~out.panic
           /\ tree = import_from_sofer(records).v

\* an optional subtree with its sibling chain, the attributes of every node
\* as a set
RECURSIVE Unordered(_)
Unordered(o) ==
    IF o = None THEN None
    ELSE Some([uuid |-> o[1].uuid,
               raw |-> o[1].value.raw,
               evaled |-> o[1].value.evaled,
               attributes |-> {o[1].value.attributes[i] :
                                  i \in 1..Len(o[1].value.attributes)},
               first_child |-> Unordered(o[1].first_child),
               next_sibling |-> Unordered(o[1].next_sibling)])

\* attribute names pairwise distinct within every node
DistinctNames(t) ==
    \A n \in Nodes(t) :
       \A i, j \in 1..Len(n.value.attributes) :
          i # j => n.value.attributes[i].name # n.value.attributes[j].name

\* C20: importing the Lua source exported from a tree succeeds and gives the
\* tree again: the same uuids, links and order of children, the same raw and
\* evaled texts and the same attributes on every node.
C20_LuaRoundTrip ==
    (/\ out.op = "import_from_lua_code"
     /\ out.args[1] = export_to_lua(out.before[1])
     /\ DistinctNames(out.before[1]))
    => /\ ~out.panic
       /\ Unordered(Some(tree)) = Unordered(Some(out.before[1]))

\* the value of a field of a table, nil when the table has no such field
Field(table, key) ==
    LET hit == {i \in 1..Len(table.v) :
                   table.v[i][1].t = key.t /\ table.v[i][1].v = key.v}
    IN  IF hit = {} THEN LuaNil ELSE table.v[CHOOSE i \in hit : TRUE][2]

\* C21: Node::from_lua succeeds on every table with a string raw, an evaled
\* that is a string or missing and an attributes that is a table or missing;
\* a missing evaled gives an absent evaled and a missing attributes gives an
\* empty attribute list.
C21_NodeOptionalFields ==
    (/\ out.op = "Node::from_lua"
     /\ out.args[1].t = "table"
     /\ Field(out.args[1], KeyRaw).t = "string"
     /\ Field(out.args[1], KeyEvaled).t \in {"nil", "string"}
     /\ Field(out.args[1], KeyAttributes).t \in {"nil", "table"})
    => /\ out.ret.ok
       /\ Field(out.args[1], KeyEvaled).t = "nil" => out.ret.v.evaled = None
       /\ Field(out.args[1], KeyAttributes).t = "nil" => out.ret.v.attributes = <<>>

\* the elements of a list, first to last
ListItems(list) == [i \in 1..Len(list.v) |-> list.v[i][2]]

\* a table whose keys are 1..n in this order
IsList(x) ==
    /\ x.t = "table"
    /\ \A i \in 1..Len(x.v) : x.v[i][1].t = "number" /\ x.v[i][1].v = i

\* the shape Node::from_lua expects: a table with a string raw, an evaled
\* that is a string if there is one, and attributes whose entries are
\* strings, numbers and booleans if there are any
NodeShaped(x) ==
    /\ x.t = "table"
    /\ Field(x, KeyRaw).t = "string"
    /\ Field(x, KeyEvaled).t \in {"nil", "string"}
    /\ Field(x, KeyAttributes).t \in {"nil", "table"}
    /\ Field(x, KeyAttributes).t = "table" =>
          \A i \in 1..Len(Field(x, KeyAttributes).v) :
             Field(x, KeyAttributes).v[i][2].t \in {"string", "number", "boolean"}

\* the shape Tree::from_lua expects: a table with a node-shaped value, the
\* text of a uuid and a list of tree-shaped children
RECURSIVE TreeShaped(_)
TreeShaped(x) ==
    /\ x.t = "table"
    /\ NodeShaped(Field(x, KeyValue))
    /\ Field(x, KeyUuid).t = "string"
    /\ IsUuidText(Field(x, KeyUuid).v)
    /\ IsList(Field(x, KeyChildren))
    /\ \A i \in 1..Len(Field(x, KeyChildren).v) :
          TreeShaped(ListItems(Field(x, KeyChildren))[i])

\* C22: Tree::from_lua returns a conversion error for every value that is
\* not of the shape it expects: it neither returns a tree nor panics.
C22_MismatchIsConversionError ==
    (out.op = "Tree::from_lua" /\ ~TreeShaped(out.args[1]))
    => /\ ~out.panic
       /\ ~out.ret.ok

\* the tree a tree-shaped table describes: its uuid and value, and under it
\* the trees of the elements of children in the order of the list
RECURSIVE Described(_)
Described(x) ==
    LET items == ListItems(Field(x, KeyChildren))
        value == Field(x, KeyValue)
        attributes == Field(value, KeyAttributes)
    IN  [value |-> [raw |-> Field(value, KeyRaw).v,
                    evaled |-> IF Field(value, KeyEvaled).t = "string"
                               THEN Some(Field(value, KeyEvaled).v) ELSE None,
                    attributes |->
                        [i \in 1..Len(attributes.v) |->
                            [kind |-> IF attributes.v[i][2].t = "string" THEN "String"
                                      ELSE IF attributes.v[i][2].t = "number" THEN "Number"
                                      ELSE "Boolean",
                             name |-> attributes.v[i][1].v,
                             val |-> attributes.v[i][2].v]]],
         uuid |-> ParseNum(SubSeq(Field(x, KeyUuid).v, 3, Len(Field(x, KeyUuid).v))),
         first_child |-> ChainOf([i \in 1..Len(items) |-> Described(items[i])]),
         next_sibling |-> None]

\* C23: the tree Tree::from_lua returns for a tree-shaped table with
\* attributes carries the uuid and the value of the table, has no next
\* sibling, and has as children the trees of the elements of children, in
\* the order of the list, at every level.
C23_ChildrenInListOrder ==
    (/\ out.op = "Tree::from_lua"
     /\ ~out.panic
     /\ out.ret.ok)
    => /\ out.ret.v.uuid = ParseNum(SubSeq(Field(out.args[1], KeyUuid).v, 3,
                                           Len(Field(out.args[1], KeyUuid).v)))
       /\ out.ret.v.next_sibling = None
       /\ LET items == ListItems(Field(out.args[1], KeyChildren))
          IN  /\ Len(ChildrenOf(out.ret.v)) = Len(items)
              /\ TreeShaped(out.args[1]) => out.ret.v = Described(out.args[1])

\* a table with two children, the first with two children of its own, has
\* been converted
C23_Witness ==
    /\ out.op = "Tree::from_lua"
    /\ ~out.panic
    /\ out.ret.ok
    /\ TreeShaped(out.args[1])
    /\ Len(ChildrenOf(out.ret.v)) = 2
    /\ Len(ChildrenOf(ChildrenOf(out.ret.v)[1])) = 2
    /\ Len(ChildrenOf(ChildrenOf(out.ret.v)[2])) = 1
    /\ out.ret.v.value.attributes # <<>>

\* an optional subtree with its sibling chain, of every node only the raw
\* text, the uuid and the links
RECURSIVE BareChain(_)
BareChain(o) ==
    IF o = None THEN None
    ELSE Some([value |-> [raw |-> o[1].value.raw, attributes |-> <<>>, evaled |-> None],
               uuid |-> o[1].uuid,
               first_child |-> BareChain(o[1].first_child),
               next_sibling |-> BareChain(o[1].next_sibling)])

\* the node n with its raw text, its uuid and its subtree of raw texts and
\* uuids: no attributes, no evaled texts, no following siblings
Bare(n) == [BareChain(Some(n))[1] EXCEPT !.next_sibling = None]

\* C24: the table handed to the formula of a node, and the text eval
\* returns for the node, are those of the node stripped of all attributes,
\* all evaled texts and its following siblings: nodes that differ only in
\* these get the same argument and the same result.
C24_ArgumentHidesAttributesAndEvaled ==
    out.op = "eval" /\ ~out.panic =>
        /\ Tree_to_lua(out.args[1]) = Tree_to_lua(Bare(out.args[1]))
        /\ out.ret = eval(Bare(out.args[1]))

\* a node with an attribute, an evaled text, a following sibling and a
\* child with an attribute and an evaled text has been evaluated by a
\* formula that reads its argument
C24_Witness ==
    /\ out.op = "eval"
    /\ ~out.panic
    /\ out.args[1].value.attributes # <<>>
    /\ IsSome(out.args[1].value.evaled)
    /\ IsSome(out.args[1].next_sibling)
    /\ IsSome(out.args[1].first_child)
    /\ out.args[1].first_child[1].value.attributes # <<>>
    /\ IsSome(out.args[1].first_child[1].value.evaled)
    /\ out.ret = <<"1">>

\* the links that arrive at the node with the uuid u: the pairs of a node
\* and the field of it that holds a node with the uuid u
IncomingEdges(t, u) ==
    { <<n, "first_child">> : n \in {m \in Nodes(t) :
                                      IsSome(m.first_child) /\ m.first_child[1].uuid = u} }
    \cup { <<n, "next_sibling">> : n \in {m \in Nodes(t) :
                                      IsSome(m.next_sibling) /\ m.next_sibling[1].uuid = u} }

\* uuids pairwise distinct, the nil uuid on the root alone, no sibling of
\* the root, one incoming link for every other node and none for the root
TreeInvariant(t) ==
    /\ DistinctUuidsIn(t)
    /\ \A n \in Nodes(t) : n.uuid = Nil <=> n = t
    /\ t.next_sibling = None
    /\ IncomingEdges(t, t.uuid) = {}
    /\ \A n \in Nodes(t) : n # t => Cardinality(IncomingEdges(t, n.uuid)) = 1

\* C25: along every sequence of inserts of new children from new_tree the
\* tree keeps its invariant, it starts with one node, and every step adds
\* one node if it is an insert that returned true and none otherwise: the
\* tree has one node more than inserts have returned true.
C25_InsertKeepsTreeInvariant ==
    /\ Size(Some(tree)) = 1
    /\ [](TreeInvariant(tree))
    /\ [][Size(Some(tree')) =
             Size(Some(tree)) + (IF out'.op = "insert" /\ out'.ret THEN 1 ELSE 0)]_vars

\* after three inserts that returned true, the last under a node that is
\* neither the root nor a first child, an insert has returned false
C25_Witness ==
    /\ out.op = "insert"
    /\ out.ret = FALSE
    /\ Size(Some(tree)) = 4
    /\ \E n \in Nodes(tree) :
          /\ IsSome(n.first_child)
          /\ n.uuid # Nil
          /\ Cardinality(IncomingEdges(tree, n.uuid)) = 1
          /\ \E e \in IncomingEdges(tree, n.uuid) : e[2] = "next_sibling"

\* the uuids of a sequence of nodes, and a sequence without the entries
\* that equal x
UuidSeq(ns) == [i \in 1..Len(ns) |-> ns[i].uuid]

RECURSIVE Without(_, _)
Without(s, x) ==
    IF s = <<>> THEN <<>>
    ELSE (IF Head(s) = x THEN <<>> ELSE <<Head(s)>>) \o Without(Tail(s), x)

\* the entries of a traversal: depth, uuid and payload of every node
Entries(v) == [i \in 1..Len(v) |-> <<v[i][1], v[i][2].uuid, v[i][2].value>>]

\* C26: after an insert that returned true every node of the tree before
\* the call is in the tree with its uuid and payload, under the same parent
\* and at the same place among the earlier children of that parent, and the
\* traversal of the tree without the entry of the new node is the traversal
\* of the tree before the call.
C26_InsertOnlyExtends ==
    (out.op = "insert" /\ out.ret = TRUE) =>
        LET old == out.before[1]
            n == out.args[2]
        IN  /\ \A m \in Nodes(old) :
                  \E k \in Nodes(tree) :
                     /\ k.uuid = m.uuid
                     /\ k.value = m.value
                     /\ Without(UuidSeq(ChildrenOf(k)), n.uuid) = UuidSeq(ChildrenOf(m))
            /\ ParentLinks(tree) = ParentLinks(old) \cup {<<out.args[1], n.uuid>>}
            /\ Without(Entries(traverse(tree)),
                       <<CHOOSE d \in 0..Size(Some(tree)) :
                            \E i \in 1..Len(traverse(tree)) :
                               traverse(tree)[i][1] = d /\ traverse(tree)[i][2].uuid = n.uuid,
                         n.uuid, n.value>>)
                 = Entries(traverse(old))

\* a node has been inserted as the last child of a node that is not the
\* root and has a following sibling, so that its entry is not the last of
\* the traversal
C26_Witness ==
    /\ out.op = "insert"
    /\ out.ret = TRUE
    /\ out.args[1] # Nil
    /\ \E k \in Nodes(tree) :
          /\ k.uuid = out.args[1]
          /\ ChildrenOf(k)[Len(ChildrenOf(k))].uuid = out.args[2].uuid
          /\ IsSome(k.next_sibling)

\* an optional subtree with its sibling chain, without the evaled texts
RECURSIVE ClearEvaled(_)
ClearEvaled(o) ==
    IF o = None THEN None
    ELSE Some([o[1] EXCEPT !.value.evaled = None,
                           !.first_child = ClearEvaled(o[1].first_child),
                           !.next_sibling = ClearEvaled(o[1].next_sibling)])

\* eval_all has left every uuid, raw text, attribute and link as it was
EvalAllFrame == ClearEvaled(Some(tree)) = ClearEvaled(out.before)

\* a second eval_all would leave the evaled texts as they are
EvalAllTwice == eval_all(tree) = tree

\* C27 as stated: eval_all changes only evaled, the new evaled text of a
\* node is a function of its raw text alone, and a second eval_all changes
\* nothing.
C27_EvaledFromRawAlone ==
    out.op = "eval_all" =>
        /\ EvalAllFrame
        /\ \A n, m \in Nodes(tree) :
              n.value.raw = m.value.raw => n.value.evaled = m.value.evaled
        /\ EvalAllTwice

\* C27: eval_all changes only evaled; the new evaled text of a node is the
\* text eval gives for the node stripped of attributes, evaled texts and
\* following siblings, so it comes from the raw texts and uuids of the node
\* and its subtree and takes the place of the text of before; a second
\* eval_all changes nothing.
C27_EvalAllOnlyEvaled ==
    out.op = "eval_all" =>
        /\ EvalAllFrame
        /\ \A n \in Nodes(tree) : n.value.evaled = Some(eval(Bare(n)))
        /\ EvalAllTwice

\* eval_all has run on a tree of four nodes where a node with attributes
\* had the evaled text e of before, and a formula that counts children has
\* given 1
C27_Witness ==
    /\ out.op = "eval_all"
    /\ Size(Some(tree)) = 4
    /\ \E n \in Nodes(out.before[1]) :
          /\ n.value.evaled = Some(<<"e">>)
          /\ n.value.attributes # <<>>
          /\ \E m \in Nodes(tree) : m.uuid = n.uuid /\ m.value.evaled = Some(<<"1">>)

\* the characters of a text after its last newline
Unterminated(text) ==
    SubSeq(text, Len(Flatten(SplitLines(text, <<>>))) + 1, Len(text))

\* C28: read_nodes returns one record for every newline of the text, and
\* the characters after the last newline change nothing: the call fails or
\* returns exactly as it does on the text up to its last newline, and the
\* tree imported from the text has no node for them.
C28_UnterminatedLineIgnored ==
    LET text == out.args[1]
        lines == SplitLines(text, <<>>)
        closed == read_nodes(Flatten(lines))
        last == UpToSpace(Unterminated(text))
    IN  /\ out.op = "read_nodes" =>
              /\ out.panic = closed.panic
              /\ ~out.panic => out.ret = closed.v /\ Len(out.ret) = Len(lines)
        /\ (/\ out.op = "import_from_sofer"
            /\ ~out.panic
            /\ IsUuidText(last)
            /\ \A i \in 1..Len(lines) : LineField(lines[i], 1) # last)
           => Uuid_parse_str(last)[1] \notin UuidsOf(tree)

\* a text of a record and of characters without newline that are no
\* record has been read without failure, and a text of a record and of a
\* record without its newline has been imported
C28_Witness ==
    \/ /\ out.op = "read_nodes"
       /\ ~out.panic
       /\ Len(out.ret) = 1
       /\ Unterminated(out.args[1]) = <<"x", "9", " ", "k", ";">>
    \/ /\ out.op = "import_from_sofer"
       /\ ~out.panic
       /\ Size(Some(tree)) = 2
       /\ Unterminated(out.args[1]) = <<"0", "-", "4", " ", "0", "-", "0", " ", " ", "t">>

====
